---- MODULE Spec2Model ----
(***************************************************************************)
(* Model of the FIM server's write-behind ingest buffer                    *)
(* (src/server/ingest_buffer.py) and of the HTTP handlers that use it      *)
(* (src/server/main.py), of the token table (src/server/auth.py) and of    *)
(* the client's scan scheduler (src/client/scanner.py).                    *)
(*                                                                         *)
(* Scheduling.  Every coroutine of the server runs on one asyncio event    *)
(* loop.  A coroutine keeps the loop until it awaits something that is not *)
(* ready.  asyncio.Lock.acquire returns at once when the lock is free, and *)
(* no holder of the buffer lock awaits while holding it, so "async with    *)
(* self._lock" never suspends; the storage step is a blocking sqlite3 call.*)
(* The only suspension points of the buffer are wait_for (line 127) and    *)
(* sleep (line 139) of the background worker.  The variable `running`      *)
(* names the task that owns the loop; "none" means the loop is free to     *)
(* pick any ready task.                                                    *)
(***************************************************************************)
EXTENDS Integers, Sequences, FiniteSets, TLC

\* ------------------------------------------------------------- bounds ----
MaxPendingRows == 2     \* IngestBuffer(max_pending_rows=...), scaled down
FlushMaxRows == 1       \* IngestBuffer(flush_max_rows=...), scaled down
MaxRows == 3            \* rows offered to enqueue over one behaviour
MaxRecs == 2            \* rows of one enqueue call
MaxFailures == 1        \* storage failures over one behaviour
MaxStored == 2          \* rows in storage when the server starts
MaxTokens == 4          \* create_or_rotate_token calls over one behaviour
GiB == 2                \* scan_files, line 94: 1024**3 bytes, scaled down
MaxSize == 2            \* FileEntry.size_bytes, in the bytes of GiB
MaxQuota == 2           \* quota_gb
MaxDay == 2             \* days the clock passes through
MaxRetries == 2         \* ClientConfig.http_retries
MaxBatchRecords == 2    \* ClientConfig.max_batch_records

MaxBatch == 30          \* cli.py, lines 103 and 198
NoCap == 1000000000     \* flush, line 99: max_rows=None

Machines == {"m1"}
Paths == {"/a", "/b"}
Hashes == {"h1", "h2"}
None == "None"

Names == {"", "a.bin", "b.bin"}                    \* RecordIn.file_name: any str
\* one RecordIn of a request, with the file name a client derives from the
\* path
Records == [path : Paths, sha : Hashes, name : {"a.bin"}]
\* one RecordIn of a request, with any file name
NamedRecords == [path : Paths, sha : Hashes, name : Names]
\* Authorization headers: "Bearer" with the token issued to m1, "Bearer"
\* with a token nobody was issued, a header of another form, no header
Tokens == {"t1", "bad", "malformed", "missing"}
DefaultLimit == 100             \* file_by_sha256, main.py line 204
MaxLimit == 1000                \* file_by_sha256, main.py line 216
MachineDefaultLimit == 200      \* machine_records, main.py line 233
MachineMaxLimit == 5000         \* machine_records, main.py line 243

Callers == {"worker", "api", "reader"}

VARIABLES
  pending,      \* IngestBuffer._pending_rows
  cache,        \* IngestBuffer._latest_sha_by_machine_path
  wakeup,       \* IngestBuffer._wakeup
  stopReq,      \* IngestBuffer._stop_requested
  committed,    \* table file_record, in id order
  wpc,          \* position of the background worker in _run
  fl,           \* per caller: the frame of its flush call
  running,      \* task that owns the event loop
  failures,     \* storage failures so far
  accepted,     \* history: rows admitted by enqueue, in order
  lastUpd,      \* history: per key, hash of the latest admitted cache update
  rd,           \* frame of the read request being handled
  ing,          \* frame of the ingest request being handled
  out,          \* what the step just taken returned to its caller
  authRows,     \* table auth_token
  issued,       \* history: tokens uuid4 has produced so far
  disk,         \* what iter_files enumerates, in its order
  files,        \* ClientState.files
  scan,         \* frame of the scan_files call under way
  inst,         \* per client process: its position and its local values
  lockFile,     \* the file at lock_path
  stateFile,    \* the file at state_path
  tmpFile,      \* the file at state_path + ".tmp"
  today,        \* the day the clock shows
  done          \* history: paths advanced in some state by some process

\* the state of the server process
serverVars == <<pending, cache, wakeup, stopReq, committed, wpc, fl, running,
                failures, accepted, lastUpd, rd, ing>>
\* the token table and the state of a client
clientVars == <<inst, lockFile, stateFile, tmpFile, today, done>>
outside == <<authRows, issued, disk, files, scan, clientVars>>
vars == <<serverVars, out, outside>>

\* ------------------------------------------------------------ helpers ----
Min(a, b) == IF a < b THEN a ELSE b
Max(a, b) == IF a > b THEN a ELSE b
Ids(s) == {s[i].id : i \in 1..Len(s)}
Keys == Machines \X Paths
\* a dict path -> sha: a function on a subset of Paths
Dicts == UNION {[D -> Hashes] : D \in SUBSET Paths}
NoOut == [op |-> "none"]
IdleFrame == [pc |-> "idle", batch |-> <<>>, max |-> 0]
PopFrame(maxRows) == [pc |-> "pop", batch |-> <<>>, max |-> maxRows]
IdleRead == [pc |-> "idle"]
IdleIngest == [pc |-> "idle"]

\* ----------------------------------------------------- buffer methods ----
\* cached_latest_sha_by_path: the requested keys that are cached
CachedLatest(c, m, paths) ==
  [p \in {q \in paths : c[<<m, q>>] # None} |-> c[<<m, p>>]]

PrimeOverwrites(c, m, d) ==
  [k \in Keys |-> IF k[1] = m /\ k[2] \in DOMAIN d THEN d[k[2]] ELSE c[k]]

\* prime_latest_sha_by_path: setdefault for every item of the dict
PrimeLatest(c, m, d) ==
  [k \in Keys |-> IF k[1] = m /\ k[2] \in DOMAIN d /\ c[k] = None
                  THEN d[k[2]] ELSE c[k]]

AdmitsIgnoringNew(npending, n) == npending <= MaxPendingRows

\* enqueue, line 90: the call is admitted unless it would pass the ceiling
Admits(npending, n) == ~(npending + n > MaxPendingRows)

CacheKeepsOld(c, m, d) == PrimeLatest(c, m, d)

\* enqueue, lines 93-94: every update overwrites its key
CacheUpdate(c, m, d) ==
  [k \in Keys |-> IF k[1] = m /\ k[2] \in DOMAIN d THEN d[k[2]] ELSE c[k]]

\* flush, lines 98-100; max_rows=None is passed as NoCap
FlushCap(maxRows) == Max(1, maxRows)

PutBackAtTail(batch, q) == q \o batch

\* flush, line 119
PutBack(batch, q) == batch \o q

AfterPopYields(c) == "none"

\* flush, lines 107-110: leaving "async with" and calling sqlite3 do not
\* suspend, so the caller still owns the loop when the storage step starts
AfterPop(c) == c

\* ------------------------------------------------------------- state ----
\* the server after startup (main.py lines 26-34)
ServerInit ==
  /\ pending = <<>>
  /\ cache = [k \in Keys |-> None]
  /\ wakeup = FALSE
  /\ stopReq = FALSE
  /\ committed = <<>>
  /\ wpc = "wait"                       \* start(): the task is created
  /\ fl = [c \in Callers |-> IdleFrame]
  /\ running = "none"
  /\ failures = 0
  /\ accepted = <<>>
  /\ lastUpd = [k \in Keys |-> None]
  /\ rd = IdleRead
  /\ ing = IdleIngest
  /\ out = NoOut

ScanPaths == {"/a", "/b", "/c"}           \* FileEntry.path
IdleScan == [pc |-> "idle"]

\* the client processes that can be started on one state path
Instances == {"p1", "p2"}

\* a path at which there is no file
NoFile == [exists |-> FALSE]

\* a process that is not running; the fields are the local values of
\* _cmd_run and _cmd_daemon and the attributes of SingleInstance
OffFrame ==
  [pc |-> "off", cmd |-> "run", status |-> "none",
   fd |-> FALSE, atexit |-> FALSE, term |-> "dfl", int |-> "dfl",
   held |-> FALSE,
   loaded |-> [p \in ScanPaths |-> ""], last_run |-> "",
   retries |-> 1, batch |-> 1, records |-> <<>>, k |-> 1, attempt |-> 1,
   day |-> 0, acked |-> {}, after |-> "batch"]

\* no client process, no lock file, no state file
ClientInit ==
  /\ inst = [i \in Instances |-> OffFrame]
  /\ lockFile = NoFile
  /\ stateFile = NoFile
  /\ tmpFile = NoFile
  /\ today = 1
  /\ done = {}

\* no token issued, nothing to scan
OutsideInit ==
  /\ authRows = {}
  /\ issued = 0
  /\ disk = <<>>
  /\ files = [p \in ScanPaths |-> ""]
  /\ scan = IdleScan
  /\ ClientInit

Init == ServerInit /\ OutsideInit

\* history of the cache updates of admitted enqueue calls
NoteUpdates(h, m, d) ==
  [k \in Keys |-> IF k[1] = m /\ k[2] \in DOMAIN d THEN d[k[2]] ELSE h[k]]

\* ---------------------------------------------------------- flush ------
\* What the caller does with the outcome of its flush call.
\*   worker, _run lines 132-150: loop again, leave the loop, sleep, or die
\*   reader, main.py lines 209-215 and 237-242: go on to the query, or fail
\*   api: the call returns or raises to whoever called the method
Return(c, res, n) ==
  CASE c = "worker" ->
         /\ out' = NoOut
         /\ rd' = rd
         /\ IF res = "some"
            THEN /\ wpc' = wpc
                 /\ fl' = [fl EXCEPT ![c] = PopFrame(FlushMaxRows)]
                 /\ running' = c
            ELSE IF res = "zero" /\ wpc = "drain" /\ stopReq
            THEN /\ wpc' = "final"
                 /\ fl' = [fl EXCEPT ![c] = PopFrame(FlushMaxRows)]
                 /\ running' = c
            ELSE /\ wpc' = IF res = "other" THEN "dead"
                           ELSE IF wpc = "final" THEN "done"
                           ELSE IF res = "sqlite" THEN "sleep"
                           ELSE "wait"
                 /\ fl' = [fl EXCEPT ![c] = IdleFrame]
                 /\ running' = "none"
    [] c = "reader" ->
         /\ wpc' = wpc
         /\ fl' = [fl EXCEPT ![c] = IdleFrame]
         /\ IF res = "other"
            THEN /\ rd' = IdleRead
                 /\ out' = [op |-> "read", status |-> 500]
                 /\ running' = "none"
            ELSE /\ rd' = [rd EXCEPT !.pc = "query", !.flush = res]
                 /\ out' = NoOut
                 /\ running' = c
    [] OTHER ->
         /\ wpc' = wpc
         /\ rd' = rd
         /\ fl' = [fl EXCEPT ![c] = IdleFrame]
         /\ out' = [op |-> "flush", res |-> res, n |-> n]
         /\ running' = "none"

\* flush, lines 102-107: nothing pending, or pop the head of the queue
FlushPop(c) ==
  /\ UNCHANGED outside
  /\ fl[c].pc = "pop"
  /\ running = c
  /\ UNCHANGED <<cache, wakeup, stopReq, committed, failures, accepted,
                 lastUpd, ing>>
  /\ IF pending = <<>>
     THEN /\ pending' = pending
          /\ Return(c, "zero", 0)
     ELSE LET n == Min(Len(pending), FlushCap(fl[c].max))
          IN /\ pending' = SubSeq(pending, n + 1, Len(pending))
             /\ fl' = [fl EXCEPT ![c] = [pc |-> "storage",
                                        batch |-> SubSeq(pending, 1, n),
                                        max |-> fl[c].max]]
             /\ running' = AfterPop(c)
             /\ out' = NoOut
             /\ UNCHANGED <<wpc, rd>>

\* flush, lines 109-116 and 122: insert and commit; a sqlite3.Error leads to
\* the handler of line 116, any other exception leaves flush at once
FlushStorage(c) ==
  /\ UNCHANGED outside
  /\ fl[c].pc = "storage"
  /\ running \in {c, "none"}
  /\ UNCHANGED <<pending, cache, wakeup, stopReq, accepted, lastUpd, ing>>
  /\ \/ /\ committed' = committed \o fl[c].batch
        /\ failures' = failures
        /\ Return(c, "some", Len(fl[c].batch))
     \/ /\ failures < MaxFailures
        /\ failures' = failures + 1
        /\ committed' = committed
        /\ fl' = [fl EXCEPT ![c].pc = "putback"]
        /\ running' = c
        /\ out' = NoOut
        /\ UNCHANGED <<wpc, rd>>
     \/ /\ failures < MaxFailures
        /\ failures' = failures + 1
        /\ committed' = committed
        /\ Return(c, "other", 0)

\* flush, lines 117-120: put the batch back and re-raise
FlushPutBack(c) ==
  /\ UNCHANGED outside
  /\ fl[c].pc = "putback"
  /\ running \in {c, "none"}
  /\ pending' = PutBack(fl[c].batch, pending)
  /\ UNCHANGED <<cache, wakeup, stopReq, committed, failures, accepted,
                 lastUpd, ing>>
  /\ Return(c, "sqlite", 0)

\* ------------------------------------------------- background worker ----
\* _run, lines 127-134: wait_for returns on the wakeup or on the timeout
\* (Python 3.11 or later, where asyncio's timeout is the built-in
\* TimeoutError that line 128 catches)
WorkerWake ==
  /\ UNCHANGED outside
  /\ wpc = "wait"
  /\ running = "none"
  /\ wakeup' = FALSE
  /\ wpc' = "drain"
  /\ fl' = [fl EXCEPT !["worker"] = PopFrame(FlushMaxRows)]
  /\ running' = "worker"
  /\ out' = NoOut
  /\ UNCHANGED <<pending, cache, stopReq, committed, failures, accepted,
                 lastUpd, rd, ing>>

\* _run, lines 139-144: the sleep after a failed flush ends
WorkerSleepDone ==
  /\ UNCHANGED outside
  /\ wpc = "sleep"
  /\ running = "none"
  /\ IF stopReq
     THEN /\ wpc' = "final"
          /\ fl' = [fl EXCEPT !["worker"] = PopFrame(FlushMaxRows)]
          /\ running' = "worker"
     ELSE /\ wpc' = "wait"
          /\ fl' = fl
          /\ running' = "none"
  /\ out' = NoOut
  /\ UNCHANGED <<pending, cache, wakeup, stopReq, committed, failures,
                 accepted, lastUpd, rd, ing>>

\* stop, lines 48-49
Stop ==
  /\ UNCHANGED outside
  /\ running = "none"
  /\ ~stopReq
  /\ stopReq' = TRUE
  /\ wakeup' = TRUE
  /\ out' = NoOut
  /\ UNCHANGED <<pending, cache, committed, wpc, fl, running, failures,
                 accepted, lastUpd, rd, ing>>

\* --------------------------------------- the methods called directly ----
\* rows of a direct call are opaque to the buffer
OpaqueRows(m, n) ==
  [i \in 1..n |-> [id |-> Len(accepted) + i, m |-> m, path |-> "-",
                   sha |-> "-", name |-> "-"]]

\* enqueue, lines 87-91: how the call ends
EnqueueResult(rows) ==
  IF rows = <<>> THEN "empty"
  ELSE IF ~Admits(Len(pending), Len(rows)) THEN "full"
  ELSE "ok"

\* enqueue, lines 87-95
Enqueue(m, rows, d) ==
  IF EnqueueResult(rows) = "ok"
  THEN /\ pending' = pending \o rows
       /\ cache' = CacheUpdate(cache, m, d)
       /\ wakeup' = TRUE
       /\ accepted' = accepted \o rows
       /\ lastUpd' = NoteUpdates(lastUpd, m, d)
  ELSE UNCHANGED <<pending, cache, wakeup, accepted, lastUpd>>

ApiEnqueue(m, n, d) ==
  /\ UNCHANGED outside
  /\ running = "none"
  /\ Len(accepted) + n <= MaxRows
  /\ Enqueue(m, OpaqueRows(m, n), d)
  /\ out' = [op |-> "enqueue", res |-> EnqueueResult(OpaqueRows(m, n)),
             m |-> m, d |-> d]
  /\ UNCHANGED <<stopReq, committed, wpc, fl, running, failures, rd, ing>>

ApiPrime(m, d) ==
  /\ UNCHANGED outside
  /\ running = "none"
  /\ cache' = IF DOMAIN d = {} THEN cache ELSE PrimeLatest(cache, m, d)
  /\ out' = [op |-> "prime", m |-> m, d |-> d]
  /\ UNCHANGED <<pending, wakeup, stopReq, committed, wpc, fl, running,
                 failures, accepted, lastUpd, rd, ing>>

ApiFlush(maxRows) ==
  /\ UNCHANGED outside
  /\ running = "none"
  /\ fl["api"].pc = "idle"
  /\ fl' = [fl EXCEPT !["api"] = PopFrame(maxRows)]
  /\ running' = "api"
  /\ out' = NoOut
  /\ UNCHANGED <<pending, cache, wakeup, stopReq, committed, wpc, failures,
                 accepted, lastUpd, rd, ing>>

\* the steps of a flush call under way, whoever made it
FlushSteps ==
  \/ \E c \in Callers : FlushPop(c)
  \/ \E c \in Callers : FlushStorage(c)
  \/ \E c \in Callers : FlushPutBack(c)

Worker == WorkerWake \/ WorkerSleepDone \/ FlushSteps

NextBuf ==
  \/ Worker
  \/ Stop
  \/ \E m \in Machines, n \in 0..MaxRecs, d \in Dicts : ApiEnqueue(m, n, d)
  \/ \E m \in Machines, d \in Dicts : ApiPrime(m, d)
  \/ \E maxRows \in (0..MaxRecs) \cup {NoCap} : ApiFlush(maxRows)

SpecBuf == Init /\ [][NextBuf]_vars

\* ------------------------------------------------------ HTTP handlers ----
\* sequences of at most n records
RECURSIVE SeqsUpTo(_, _)
SeqsUpTo(S, n) ==
  IF n = 0 THEN {<<>>}
  ELSE LET shorter == SeqsUpTo(S, n - 1)
       IN shorter \cup {Append(s, x) : s \in {t \in shorter : Len(t) = n - 1},
                                       x \in S}

\* machine_name_for_token (imported by main.py line 9): the machine the
\* token was issued to, if any
TokenMachine(tok) == IF tok = "t1" THEN "m1" ELSE None

\* extract_bearer_token, auth.py lines 9-15: the token of a "Bearer" header
ExtractBearerToken(h) == IF h \in {"malformed", "missing"} THEN None ELSE h

RequireAnyBearer(h) == IF ExtractBearerToken(h) = None THEN None ELSE "m1"

\* _require_machine_name, lines 54-63: the machine of the request; None
\* stands for the HTTPException with status 401
RequireMachineName(h) ==
  IF ExtractBearerToken(h) = None THEN None
  ELSE TokenMachine(ExtractBearerToken(h))

\* _latest_sha_by_path, lines 66-84: sha of the row with the greatest id
\* among the committed rows of (machine, path)
RECURSIVE LastIndex(_, _, _)
LastIndex(rows, m, p) ==
  IF rows = <<>> THEN 0
  ELSE IF rows[Len(rows)].m = m /\ rows[Len(rows)].path = p THEN Len(rows)
  ELSE LastIndex(SubSeq(rows, 1, Len(rows) - 1), m, p)

LatestShaByPath(rows, m, paths) ==
  [p \in {q \in paths : LastIndex(rows, m, q) > 0} |->
     rows[LastIndex(rows, m, p)].sha]

\* ingest, line 115: {**db_prev_by_path, **cached_prev_by_path}
MergePrev(dbPrev, cached) ==
  [p \in DOMAIN dbPrev \cup DOMAIN cached |->
     IF p \in DOMAIN cached THEN cached[p] ELSE dbPrev[p]]

\* ingest, lines 117-127: one entry per record whose path had another hash
RECURSIVE Changed(_, _)
Changed(recs, prev) ==
  IF recs = <<>> THEN <<>>
  ELSE LET r == Head(recs)
           rest == Changed(Tail(recs), prev)
       IN IF r.path \in DOMAIN prev /\ prev[r.path] # r.sha
          THEN <<[file_path |-> r.path, previous_sha256 |-> prev[r.path],
                  new_sha256 |-> r.sha]>> \o rest
          ELSE rest

\* ingest, lines 129-145; the fields the buffer and the queries of this
\* model never read (machine_id, mac, size_bytes, tag, host_name, client_ip,
\* scan_ts, urn) are left out of a row
Rows(m, recs) ==
  [i \in 1..Len(recs) |-> [id |-> Len(accepted) + i, m |-> m,
                           path |-> recs[i].path, sha |-> recs[i].sha,
                           name |-> recs[i].name]]

RECURSIVE FirstUpdates(_)
FirstUpdates(recs) ==
  IF recs = <<>> THEN <<>>
  ELSE LET r == Head(recs)
           after == FirstUpdates(Tail(recs))
       IN [p \in DOMAIN after \cup {r.path} |->
             IF p = r.path THEN r.sha ELSE after[p]]

\* ingest, line 146: a dict comprehension, the last record of a path wins
RECURSIVE LatestUpdates(_)
LatestUpdates(recs) ==
  IF recs = <<>> THEN <<>>
  ELSE LET r == recs[Len(recs)]
           before == LatestUpdates(SubSeq(recs, 1, Len(recs) - 1))
       IN [p \in DOMAIN before \cup {r.path} |->
             IF p = r.path THEN r.sha ELSE before[p]]

\* ingest, lines 156-164: the hashes of the request
ShaSet(recs) == {recs[i].sha : i \in 1..Len(recs)}

\* ingest, lines 160-183: the file names that go with a hash: those of the
\* request's records, and those of the committed rows of any machine that
\* are not empty
NameSet(sha, recs, rows) ==
  {recs[i].name : i \in {j \in 1..Len(recs) : recs[j].sha = sha}}
  \cup {rows[i].name :
          i \in {j \in 1..Len(rows) : rows[j].sha = sha /\ rows[j].name # ""}}

\* the same for the file paths
PathSet(sha, recs, rows) ==
  {recs[i].path : i \in {j \in 1..Len(recs) : recs[j].sha = sha}}
  \cup {rows[i].path :
          i \in {j \in 1..Len(rows) : rows[j].sha = sha /\ rows[j].path # ""}}

\* ingest, lines 185-196: an entry for every hash of the request that goes
\* with more than one name or more than one path (the code lists them in
\* the order of the hashes, one entry per hash)
Duplicates(recs, rows) ==
  {[sha256 |-> sha,
    distinct_file_names |-> Cardinality(NameSet(sha, recs, rows)),
    distinct_file_paths |-> Cardinality(PathSet(sha, recs, rows))] :
     sha \in {h \in ShaSet(recs) :
                \/ Cardinality(NameSet(h, recs, rows)) > 1
                \/ Cardinality(PathSet(h, recs, rows)) > 1}}

\* ingest, lines 104-127: authentication, previous hashes, changed entries
IngestStart(tok, recs) ==
  /\ UNCHANGED outside
  /\ running = "none"
  /\ ~stopReq
  /\ ing.pc = "idle"
  /\ Len(accepted) + Len(recs) <= MaxRows
  /\ UNCHANGED <<pending, wakeup, stopReq, committed, wpc, fl, failures,
                 accepted, lastUpd, rd>>
  /\ IF RequireMachineName(tok) = None
     THEN /\ out' = [op |-> "ingest", status |-> 401, tok |-> tok]
          /\ UNCHANGED <<cache, ing, running>>
     ELSE LET m == RequireMachineName(tok)
              paths == {recs[i].path : i \in 1..Len(recs)}
              cached == CachedLatest(cache, m, paths)
              missing == paths \ DOMAIN cached
              dbPrev == LatestShaByPath(committed, m, missing)
          IN /\ cache' = IF DOMAIN dbPrev = {} THEN cache
                         ELSE PrimeLatest(cache, m, dbPrev)
             /\ ing' = [pc |-> "enqueue", tok |-> tok, m |-> m, recs |-> recs,
                        changed |-> Changed(recs, MergePrev(dbPrev, cached))]
             /\ running' = "ingest"
             /\ out' = NoOut

\* ingest, lines 129-198: enqueue, then 503 or the 200 response
IngestEnqueue ==
  /\ UNCHANGED outside
  /\ ing.pc = "enqueue"
  /\ running = "ingest"
  /\ Enqueue(ing.m, Rows(ing.m, ing.recs), LatestUpdates(ing.recs))
  /\ out' = IF EnqueueResult(Rows(ing.m, ing.recs)) = "full"
            THEN [op |-> "ingest", status |-> 503, tok |-> ing.tok]
            ELSE [op |-> "ingest", status |-> 200, tok |-> ing.tok,
                  inserted |-> Len(ing.recs), changed |-> ing.changed,
                  duplicates |-> Duplicates(ing.recs, committed)]
  /\ ing' = IdleIngest
  /\ running' = "none"
  /\ UNCHANGED <<stopReq, committed, wpc, fl, failures, rd>>

\* file_by_sha256, lines 209-212, and machine_records, lines 237-240: the
\* handler starts with a flush of everything pending
ReadStart(kind, key, limit) ==
  /\ UNCHANGED outside
  /\ running = "none"
  /\ ~stopReq
  /\ rd.pc = "idle"
  /\ rd' = [pc |-> "flush", kind |-> kind, key |-> key, limit |-> limit,
            flush |-> "none"]
  /\ fl' = [fl EXCEPT !["reader"] = PopFrame(NoCap)]
  /\ running' = "reader"
  /\ out' = NoOut
  /\ UNCHANGED <<pending, cache, wakeup, stopReq, committed, wpc, failures,
                 accepted, lastUpd, ing>>

\* the rows a query selects: WHERE sha256 = ? or WHERE machine_name = ?
Matching(kind, key) ==
  {i \in 1..Len(committed) :
     IF kind = "file" THEN committed[i].sha = key ELSE committed[i].m = key}

\* lines 216 and 243
ClampLimit(kind, limit) ==
  Max(1, Min(limit, IF kind = "file" THEN MaxLimit ELSE MachineMaxLimit))

\* lines 217-227 and 244-266: ORDER BY scan_ts DESC, id DESC LIMIT ?.  The
\* scan_ts of a row is whatever its client sent, so when more rows match
\* than the limit allows, any `limit` of them can be the ones returned.
ReadQuery ==
  /\ UNCHANGED outside
  /\ rd.pc = "query"
  /\ running = "reader"
  /\ LET match == Matching(rd.kind, rd.key)
         lim == ClampLimit(rd.kind, rd.limit)
     IN \E got \in SUBSET match :
          /\ Cardinality(got) = Min(lim, Cardinality(match))
          /\ out' = [op |-> "read", status |-> 200, kind |-> rd.kind,
                     key |-> rd.key, limit |-> lim, flush |-> rd.flush,
                     ids |-> {committed[i].id : i \in got}]
  /\ rd' = IdleRead
  /\ running' = "none"
  /\ UNCHANGED <<pending, cache, wakeup, stopReq, committed, wpc, fl,
                 failures, accepted, lastUpd, ing>>

Next ==
  \/ Worker
  \/ Stop
  \/ \E tok \in Tokens, recs \in SeqsUpTo(Records, MaxRecs) : IngestStart(tok, recs)
  \/ IngestEnqueue
  \/ \E sha \in Hashes, limit \in {1, DefaultLimit} : ReadStart("file", sha, limit)
  \/ \E m \in Machines, limit \in {1, MachineDefaultLimit} :
       ReadStart("machine", m, limit)
  \/ ReadQuery

Spec == Init /\ [][Next]_vars

\* The server starts on a storage that holds the rows an earlier run of the
\* server committed (connect, db.py: the database file outlives the
\* process); queue and cache start empty.
InitIngest ==
  \E m \in Machines, recs \in SeqsUpTo(Records, MaxStored) :
    /\ pending = <<>>
    /\ cache = [k \in Keys |-> None]
    /\ wakeup = FALSE
    /\ stopReq = FALSE
    /\ committed = [i \in 1..Len(recs) |->
                      [id |-> i, m |-> m, path |-> recs[i].path,
                       sha |-> recs[i].sha, name |-> recs[i].name]]
    /\ wpc = "wait"
    /\ fl = [c \in Callers |-> IdleFrame]
    /\ running = "none"
    /\ failures = 0
    /\ accepted = committed
    /\ lastUpd = [k \in Keys |-> None]
    /\ rd = IdleRead
    /\ ing = IdleIngest
    /\ out = NoOut
    /\ OutsideInit

\* POST /ingest and the background worker
NextIngest ==
  \/ Worker
  \/ \E tok \in Tokens, recs \in SeqsUpTo(Records, MaxRecs) : IngestStart(tok, recs)
  \/ IngestEnqueue

SpecIngest == InitIngest /\ [][NextIngest]_vars

\* POST /ingest with records of any file name, and the background worker
NextDup ==
  \/ Worker
  \/ \E recs \in SeqsUpTo(NamedRecords, MaxRecs) : IngestStart("t1", recs)
  \/ IngestEnqueue

SpecDup == Init /\ [][NextDup]_vars

\* -------------------------------------------------------- token table ----
\* machine names given to the token commands
AuthNames == {"m1", "m2", "m3"}

\* machine_identity_for_token, auth.py lines 18-26: the machine names of the
\* rows that hold the token
Authenticates(rows, t) == {r.machine_name : r \in {q \in rows : q.token = t}}

\* the tokens that authenticate as a machine
ValidTokens(rows, m) == {r.token : r \in {q \in rows : q.machine_name = m}}

InsertRow(rows, m, t) == rows \cup {[machine_name |-> m, token |-> t]}

\* create_or_rotate_token, lines 32-38: INSERT ... ON CONFLICT(machine_name)
\* DO UPDATE SET token = excluded.token
Upsert(rows, m, t) ==
  IF \E r \in rows : r.machine_name = m
  THEN {IF r.machine_name = m THEN [r EXCEPT !.token = t] ELSE r : r \in rows}
  ELSE rows \cup {[machine_name |-> m, token |-> t]}

\* db.py line 34, token TEXT NOT NULL UNIQUE: the statement fails when
\* another machine's row holds the token
TokenTaken(rows, m, t) ==
  \E r \in rows : r.token = t /\ r.machine_name # m

\* create_or_rotate_token, lines 29-41.  uuid4 (line 30) is taken to return
\* a token it has not returned before.  The statement and its commit become
\* visible to other connections together; when either fails the table is
\* as it was and the call raises.
CreateOrRotateToken(m) ==
  /\ issued < MaxTokens
  /\ issued' = issued + 1
  /\ \/ /\ ~TokenTaken(authRows, m, issued + 1)
        /\ authRows' = Upsert(authRows, m, issued + 1)
        /\ out' = [op |-> "create_or_rotate_token", m |-> m, res |-> "ok",
                   token |-> issued + 1]
     \/ /\ authRows' = authRows
        /\ out' = [op |-> "create_or_rotate_token", m |-> m, res |-> "error",
                   token |-> issued + 1]
  /\ UNCHANGED <<serverVars, disk, files, scan, clientVars>>

\* delete_token, lines 44-46
DeleteToken(m) ==
  /\ authRows' = {r \in authRows : r.machine_name # m}
  /\ out' = [op |-> "delete_token", m |-> m]
  /\ UNCHANGED <<serverVars, issued, disk, files, scan, clientVars>>

NextAuth ==
  \/ \E m \in AuthNames : CreateOrRotateToken(m)
  \/ \E m \in AuthNames : DeleteToken(m)

SpecAuth == Init /\ [][NextAuth]_vars

\* ------------------------------------------------------ scan scheduler ----
\* values of ClientState.files: no entry (get returns ""), text that is no
\* timestamp, a date, the same instant written with an offset, a later
\* instant
Stamps == {"", "not-a-date", "2026-01-01", "2026-01-01T01:00:00+01:00",
           "2026-01-03T00:00:00+00:00"}

\* _parse_last_scan, lines 51-65: the instant a stored value stands for (in
\* days), or None; a value without offset is taken as UTC
ParseLastScan(v) ==
  CASE v = "2026-01-01" -> [parsed |-> TRUE, at |-> 1]
    [] v = "2026-01-02" -> [parsed |-> TRUE, at |-> 2]
    [] v = "2026-01-03" -> [parsed |-> TRUE, at |-> 3]
    [] v = "2026-01-04" -> [parsed |-> TRUE, at |-> 4]
    [] v = "2026-01-01T01:00:00+01:00" -> [parsed |-> TRUE, at |-> 1]
    [] v = "2026-01-03T00:00:00+00:00" -> [parsed |-> TRUE, at |-> 3]
    [] OTHER -> [parsed |-> FALSE, at |-> 0]

\* the order of str on the paths
PathRank(p) == CASE p = "/a" -> 1 [] p = "/b" -> 2 [] OTHER -> 3

\* the entries of the enumeration whose stored value does not parse
\* (lines 72-76), in the order of the enumeration
Unscanned(entries, fs) ==
  SelectSeq(entries, LAMBDA en : ~ParseLastScan(fs[en.path]).parsed)

KeyLessByPath(a, b, fs) == PathRank(a.path) < PathRank(b.path)

\* line 81: the order of the sort key (parsed, entry.path)
KeyLess(a, b, fs) ==
  LET ta == ParseLastScan(fs[a.path]).at
      tb == ParseLastScan(fs[b.path]).at
  IN ta < tb \/ (ta = tb /\ PathRank(a.path) < PathRank(b.path))

\* list.sort, line 81: a stable sort, here by insertion
RECURSIVE SortByKey(_, _)
SortByKey(entries, fs) ==
  IF entries = <<>> THEN <<>>
  ELSE LET x == entries[Len(entries)]
           before == SortByKey(SubSeq(entries, 1, Len(entries) - 1), fs)
           n == Cardinality({i \in 1..Len(before) : ~KeyLess(x, before[i], fs)})
       IN SubSeq(before, 1, n) \o <<x>> \o SubSeq(before, n + 1, Len(before))

UnscannedThenScanned(entries, fs) ==
  Unscanned(entries, fs)
  \o SortByKey(SelectSeq(entries,
                         LAMBDA en : ParseLastScan(fs[en.path]).parsed), fs)

\* select_files_for_run, lines 68-82
SelectFilesForRun(entries, fs) ==
  IF Unscanned(entries, fs) # <<>> THEN Unscanned(entries, fs)
  ELSE SortByKey(entries, fs)

\* what iter_files can yield: some of the paths, each once, in any order,
\* with the size lstat reported; `hashable` tells whether the file is still
\* a readable regular file when scan_files reaches it
Disks(sizes, hashables) ==
  {d \in SeqsUpTo([path : ScanPaths, size_bytes : sizes, hashable : hashables],
                  Cardinality(ScanPaths)) :
     \A i, j \in 1..Len(d) : d[i].path = d[j].path => i = j}

\* a client with files on disk and any stored values in its state
InitSelect ==
  /\ ServerInit
  /\ authRows = {}
  /\ issued = 0
  /\ disk \in Disks({0}, {TRUE})
  /\ files \in [ScanPaths -> Stamps]
  /\ scan = IdleScan
  /\ ClientInit

\* select_files_for_run called on its own
Select ==
  /\ scan.pc = "idle"
  /\ out' = [op |-> "select_files_for_run",
             sel |-> SelectFilesForRun(disk, files)]
  /\ UNCHANGED <<serverVars, authRows, issued, disk, files, scan, clientVars>>

NextSelect == Select

SpecSelect == InitSelect /\ [][NextSelect]_vars

\* ----------------------------------------------------------- scan_files ----
\* quota_gb: None, or a number of GiB
Quotas == {[given |-> FALSE, gb |-> 0]}
          \cup {[given |-> TRUE, gb |-> g] : g \in 0..MaxQuota}

\* line 94: quota_bytes
QuotaBytes(q) == q.gb * GiB

LimitedAlways(q) == TRUE

LimitedWhenPositive(q) == q.given /\ q.gb > 0

\* lines 94 and 102: quota_bytes is not None
Limited(q) == q.given

QuotaPassed(f) ==
  Limited(f.quota) /\ f.count > 0 /\ f.bytes > QuotaBytes(f.quota)

\* line 102: the loop ends before the next file
QuotaReached(f) ==
  Limited(f.quota) /\ f.count > 0 /\ f.bytes >= QuotaBytes(f.quota)

\* lines 91-99: select the files of the run
ScanStart(q, skip) ==
  /\ scan.pc = "idle"
  /\ scan' = [pc |-> "loop", quota |-> q, skip |-> skip,
              sel |-> SelectFilesForRun(disk, files), i |-> 1,
              records |-> <<>>, bytes |-> 0, count |-> 0]
  /\ out' = NoOut
  /\ UNCHANGED <<serverVars, authRows, issued, disk, files, clientVars>>

\* lines 101-103 and 136: the list is exhausted or the quota is reached;
\* the call returns its records and the bytes it hashed
ScanReturn ==
  /\ scan.pc = "loop"
  /\ scan.i > Len(scan.sel) \/ QuotaReached(scan)
  /\ out' = [op |-> "scan_files", quota |-> scan.quota, skip |-> scan.skip,
             sel |-> scan.sel, records |-> scan.records,
             scanned_bytes |-> scan.bytes]
  /\ scan' = IdleScan
  /\ UNCHANGED <<serverVars, authRows, issued, disk, files, clientVars>>

ScanSkipCounted ==
  /\ scan.pc = "loop"
  /\ scan.i <= Len(scan.sel)
  /\ ~QuotaReached(scan)
  /\ scan.sel[scan.i].path \in scan.skip \/ ~scan.sel[scan.i].hashable
  /\ scan' = [scan EXCEPT !.i = @ + 1, !.count = @ + 1]
  /\ out' = NoOut
  /\ UNCHANGED <<serverVars, authRows, issued, disk, files, clientVars>>

\* lines 105-122: a path to skip, a file that is gone or cannot be read
ScanSkip ==
  /\ scan.pc = "loop"
  /\ scan.i <= Len(scan.sel)
  /\ ~QuotaReached(scan)
  /\ scan.sel[scan.i].path \in scan.skip \/ ~scan.sel[scan.i].hashable
  /\ scan' = [scan EXCEPT !.i = @ + 1]
  /\ out' = NoOut
  /\ UNCHANGED <<serverVars, authRows, issued, disk, files, clientVars>>

\* lines 116-134: hash the file and add its record; of a record the path
\* and the size are kept
ScanHash ==
  /\ scan.pc = "loop"
  /\ scan.i <= Len(scan.sel)
  /\ ~QuotaReached(scan)
  /\ scan.sel[scan.i].path \notin scan.skip
  /\ scan.sel[scan.i].hashable
  /\ scan' = [scan EXCEPT
                !.i = @ + 1,
                !.records = Append(@, [file_path |-> scan.sel[scan.i].path,
                                       size_bytes |-> scan.sel[scan.i].size_bytes]),
                !.bytes = @ + scan.sel[scan.i].size_bytes,
                !.count = @ + 1]
  /\ out' = NoOut
  /\ UNCHANGED <<serverVars, authRows, issued, disk, files, clientVars>>

\* a client with files of any size on disk, some of them scanned before
InitScan ==
  /\ ServerInit
  /\ authRows = {}
  /\ issued = 0
  /\ disk \in Disks(0..MaxSize, BOOLEAN)
  /\ files \in [ScanPaths -> {"", "2026-01-01"}]
  /\ scan = IdleScan
  /\ ClientInit

NextScan ==
  \/ \E q \in Quotas, skip \in {{}, {"/a"}} : ScanStart(q, skip)
  \/ ScanReturn
  \/ ScanSkip
  \/ ScanHash

SpecScan == InitScan /\ [][NextScan]_vars

\* ------------------------------------------------------ client process ----
\* date.isoformat of a day of the clock
DateIso(d) ==
  CASE d = 1 -> "2026-01-01" [] d = 2 -> "2026-01-02"
    [] d = 3 -> "2026-01-03" [] OTHER -> "2026-01-04"

\* cli.py lines 103 and 198: batch_size for a configured max_batch_records
BatchSize(b) == Min(MaxBatch, Max(1, b))

\* cli.py lines 118 and 213: the batch that starts at record k
Batch(f) ==
  SubSeq(f.records, f.k, Min(f.k + BatchSize(f.batch) - 1, Len(f.records)))

BatchPaths(f) == {Batch(f)[j].file_path : j \in 1..Len(Batch(f))}

\* what an HTTP request can end with: a response, or an exception of httpx
Statuses == {200, 401, 408, 425, 429, 500}
Responses ==
  [kind : {"response"}, status : Statuses, body_ok : BOOLEAN]
  \cup [kind : {"timeout", "transport"}, status : {0}, body_ok : {FALSE}]

\* _retryable_status, uploader.py lines 13-14
RetryableStatus(s) == s \in {408, 425, 429} \/ s >= 500

\* uploader.py lines 22 and 99
Retries(r) == Max(1, r)

\* ensure_server_hello, lines 27-44: what attempt number `attempt` does
\* with the outcome of its request
HelloResult(resp, attempt, r) ==
  IF resp.kind = "response"
  THEN IF resp.status = 200 /\ resp.body_ok THEN "return"
       ELSE IF RetryableStatus(resp.status) /\ attempt < Retries(r)
            THEN "retry" ELSE "raise"
  ELSE IF attempt >= Retries(r) THEN "raise" ELSE "retry"

UploadAlwaysReturns(resp, attempt, r) == "return"

UploadRetriesAnyFailure(resp, attempt, r) ==
  IF resp.kind = "response" /\ resp.status < 400
  THEN IF resp.body_ok THEN "return" ELSE "raise"
  ELSE IF attempt >= Retries(r) THEN "raise" ELSE "retry"

\* upload_records, lines 103-120; the records scan_files produced pass
\* _validate_records (line 85)
UploadResult(resp, attempt, r) ==
  IF resp.kind = "response"
  THEN IF RetryableStatus(resp.status) /\ attempt < Retries(r) THEN "retry"
       ELSE IF resp.status >= 400 THEN "raise"
       ELSE IF resp.body_ok THEN "return" ELSE "raise"
  ELSE IF attempt >= Retries(r) THEN "raise" ELSE "retry"

\* the locals of a scan that is over
NoScan(f) ==
  [f EXCEPT !.records = <<>>, !.k = 1, !.attempt = 1, !.acked = {}, !.day = 0,
            !.after = "batch"]

\* the process leaves the with-block with an exit status or an exception:
\* SingleInstance.__exit__ is next
Leave(f, status) == [NoScan(f) EXCEPT !.pc = "release", !.status = status]

\* the daemon sleeps until its next poll (cli.py line 247)
Sleep(f) == [NoScan(f) EXCEPT !.pc = "poll"]

\* the process is over; the record keeps the handlers that were installed
\* at that time and whether the process had acquired the lock
Ended(f) ==
  [OffFrame EXCEPT !.term = f.term, !.int = f.int, !.held = f.held]

\* the process is over with RuntimeError("lock exists"), state.py line 118
Refused(f) == [Ended(f) EXCEPT !.status = "lock exists"]

FailedSilently(f, status) ==
  IF f.cmd = "daemon" THEN Sleep(f) ELSE Leave(f, "0")

\* a failure the daemon loop catches (cli.py lines 245-247) and the run
\* command answers with an exit status (lines 89-91, 126-129 and 147)
Failed(f, status) == IF f.cmd = "daemon" THEN Sleep(f) ELSE Leave(f, status)

\* a command is started: load_config (cli.py lines 52 and 158), with the
\* http_retries and max_batch_records the configuration holds
Start(i, cmd, r, b) ==
  /\ inst[i].pc = "off"
  /\ inst' = [inst EXCEPT ![i] =
                [OffFrame EXCEPT !.pc = IF cmd = "daemon" THEN "load" ELSE "enter",
                                 !.cmd = cmd, !.retries = r, !.batch = b]]
  /\ UNCHANGED <<serverVars, out, authRows, issued, disk, files, scan,
                 lockFile, stateFile, tmpFile, today, done>>

AcquireOpenAnyway(i) ==
  /\ inst[i].pc = "enter"
  /\ inst' = [inst EXCEPT ![i] = [@ EXCEPT !.pc = "atexit", !.fd = TRUE]]
  /\ lockFile' = [exists |-> TRUE, pid |-> i]
  /\ UNCHANGED <<serverVars, out, authRows, issued, disk, files, scan,
                 stateFile, tmpFile, today, done>>

\* SingleInstance.acquire, state.py lines 75-80: os.open with O_EXCL fails
\* when the file is there, and __enter__ raises (lines 117-118)
AcquireOpen(i) ==
  /\ inst[i].pc = "enter"
  /\ IF lockFile.exists
     THEN /\ inst' = [inst EXCEPT ![i] = Refused(@)]
          /\ lockFile' = lockFile
     ELSE /\ inst' = [inst EXCEPT ![i] = [@ EXCEPT !.pc = "atexit", !.fd = TRUE]]
          /\ lockFile' = [exists |-> TRUE, pid |-> i]
  /\ UNCHANGED <<serverVars, out, authRows, issued, disk, files, scan,
                 stateFile, tmpFile, today, done>>

\* acquire, lines 82-85, one line a step: atexit.register, the handler of
\* SIGTERM, the handler of SIGINT; then the with-block begins, for the
\* daemon with the state it loaded before (cli.py line 160)
AcquireInstall(i) ==
  LET f == inst[i] IN
  /\ f.pc \in {"atexit", "sigterm", "sigint"}
  /\ inst' = [inst EXCEPT ![i] =
       CASE f.pc = "atexit" -> [f EXCEPT !.pc = "sigterm", !.atexit = TRUE]
         [] f.pc = "sigterm" -> [f EXCEPT !.pc = "sigint", !.term = "ours"]
         [] OTHER -> [f EXCEPT !.pc = IF f.cmd = "daemon" THEN "poll" ELSE "load",
                               !.int = "ours", !.held = TRUE]]
  /\ files' = IF f.pc = "sigint" /\ f.cmd = "daemon" THEN f.loaded ELSE files
  /\ UNCHANGED <<serverVars, out, authRows, issued, disk, scan,
                 lockFile, stateFile, tmpFile, today, done>>

\* SingleInstance.release, lines 88-114, one step for each effect: the
\* test of _fd and atexit.unregister, the handler of SIGTERM, the handler of
\* SIGINT, os.close and _fd = None, os.unlink; then the process ends
ReleaseStep(i) ==
  LET f == inst[i] IN
  /\ f.pc \in {"release", "r_term", "r_int", "r_close", "r_unlink"}
  /\ inst' = [inst EXCEPT ![i] =
       CASE f.pc = "release" ->
              IF f.fd THEN [f EXCEPT !.pc = "r_term", !.atexit = FALSE]
              ELSE Ended(f)
         [] f.pc = "r_term" -> [f EXCEPT !.pc = "r_int", !.term = "dfl"]
         [] f.pc = "r_int" -> [f EXCEPT !.pc = "r_close", !.int = "dfl"]
         [] f.pc = "r_close" -> [f EXCEPT !.pc = "r_unlink", !.fd = FALSE]
         [] OTHER -> Ended(f)]
  /\ lockFile' = IF f.pc = "r_unlink" THEN NoFile ELSE lockFile
  /\ UNCHANGED <<serverVars, out, authRows, issued, disk, files, scan,
                 stateFile, tmpFile, today, done>>

\* SIGTERM or SIGINT reaches the process.  With the handler of
\* SingleInstance installed (lines 64-72) release runs and SystemExit ends
\* the process.  Without it SIGTERM kills the process and SIGINT raises
\* KeyboardInterrupt where the process stands: release then runs only as
\* the atexit callback, if registered, or as the finally clause of lines
\* 109-114 when os.close was under way.
Signal(i, sig) ==
  LET f == inst[i]
      handled == IF sig = "SIGTERM" THEN f.term = "ours" ELSE f.int = "ours"
      releasing == f.pc \in {"release", "r_term", "r_int", "r_close", "r_unlink"}
  IN
  /\ f.pc # "off"
  /\ scan' = IF f.pc = "scan" THEN IdleScan ELSE scan
  /\ \/ /\ handled
        /\ inst' = [inst EXCEPT ![i] =
                      Ended([f EXCEPT !.term = "dfl", !.int = "dfl"])]
        /\ lockFile' = NoFile
     \/ /\ ~handled /\ sig = "SIGTERM"
        /\ inst' = [inst EXCEPT ![i] = Ended(f)]
        /\ lockFile' = lockFile
     \/ /\ ~handled /\ sig = "SIGINT"
        /\ f.atexit /\ ~releasing
        /\ inst' = [inst EXCEPT ![i] = Leave(f, "KeyboardInterrupt")]
        /\ lockFile' = lockFile
     \/ /\ ~handled /\ sig = "SIGINT"
        /\ f.pc = "r_close"
        /\ inst' = [inst EXCEPT ![i] =
                      [f EXCEPT !.pc = "r_unlink", !.fd = FALSE,
                                !.status = "KeyboardInterrupt"]]
        /\ lockFile' = lockFile
     \/ /\ ~handled /\ sig = "SIGINT"
        /\ ~f.atexit \/ releasing
        /\ inst' = [inst EXCEPT ![i] = Ended(f)]
        /\ lockFile' = lockFile
  /\ UNCHANGED <<serverVars, out, authRows, issued, disk, files,
                 stateFile, tmpFile, today, done>>

\* load_state, state.py lines 28-43: a missing file gives an empty state,
\* a document that is no JSON object raises.  The run command loads inside
\* the with-block (cli.py line 59), the daemon before it (line 160).
Load(i) ==
  LET f == inst[i]
      doc == IF stateFile.exists
             THEN [files |-> stateFile.files, last_run |-> stateFile.last_run]
             ELSE [files |-> [p \in ScanPaths |-> ""], last_run |-> ""]
  IN
  /\ f.pc = "load"
  /\ IF stateFile.exists /\ ~stateFile.complete
     THEN /\ inst' = [inst EXCEPT ![i] =
                        IF f.cmd = "daemon" THEN Ended(f)
                        ELSE Leave(f, "error")]
          /\ files' = files
     ELSE IF f.cmd = "daemon"
     THEN /\ inst' = [inst EXCEPT ![i] =
                        [f EXCEPT !.pc = "enter", !.loaded = doc.files,
                                  !.last_run = doc.last_run]]
          /\ files' = files
     ELSE /\ inst' = [inst EXCEPT ![i] =
                        [f EXCEPT !.pc = "hello", !.last_run = doc.last_run]]
          /\ files' = doc.files
  /\ UNCHANGED <<serverVars, out, authRows, issued, disk, scan,
                 lockFile, stateFile, tmpFile, today, done>>

\* _cmd_daemon, lines 174-178 and 247: one poll.  For the one key of the
\* schedule, `match` tells whether the clock shows it; the scan is started
\* when the key was not run today, else the loop sleeps.
Poll(i, match) ==
  LET f == inst[i] IN
  /\ f.pc = "poll"
  /\ inst' = [inst EXCEPT ![i] =
                IF match /\ f.last_run # DateIso(today)
                THEN [f EXCEPT !.pc = "hello", !.day = today, !.attempt = 1]
                ELSE f]
  /\ UNCHANGED <<serverVars, out, authRows, issued, disk, files, scan,
                 lockFile, stateFile, tmpFile, today, done>>

\* one request of ensure_server_hello (uploader.py lines 27-46) or of
\* upload_records (lines 103-122) and what follows its last one in the
\* command: an acknowledged batch advances the state of its paths to the
\* date of today (cli.py lines 131-134; the daemon took the date before the
\* scan, lines 177 and 221-222)
Http(i, resp) ==
  LET f == inst[i]
      res == IF f.pc = "hello" THEN HelloResult(resp, f.attempt, f.retries)
             ELSE UploadResult(resp, f.attempt, f.retries)
      date == DateIso(IF f.cmd = "daemon" THEN f.day ELSE today)
  IN
  /\ f.pc \in {"hello", "upload"}
  /\ out' = [op |-> IF f.pc = "hello" THEN "ensure_server_hello"
                    ELSE "upload_records",
             attempt |-> f.attempt, retries |-> f.retries, resp |-> resp,
             res |-> res, k |-> f.k]
  /\ inst' = [inst EXCEPT ![i] =
       CASE res = "retry" -> [f EXCEPT !.attempt = @ + 1]
         [] res = "raise" -> Failed(f, IF f.pc = "hello" THEN "2" ELSE "1")
         [] f.pc = "hello" -> [f EXCEPT !.pc = "scan", !.attempt = 1]
         [] OTHER -> [f EXCEPT !.pc = "save", !.after = "batch", !.attempt = 1,
                               !.acked = @ \cup BatchPaths(f)]]
  /\ files' = IF res = "return" /\ f.pc = "upload"
              THEN [p \in ScanPaths |->
                      IF p \in BatchPaths(f) THEN date ELSE files[p]]
              ELSE files
  /\ done' = IF res = "return" /\ f.pc = "upload"
             THEN done \cup BatchPaths(f) ELSE done
  /\ UNCHANGED <<serverVars, authRows, issued, disk, scan,
                 lockFile, stateFile, tmpFile, today>>

\* scan_files is called (cli.py lines 95 and 192-194): the run command with
\* the quota of its arguments, the daemon with the positive quota of the
\* schedule (line 176)
ClientScan(i) ==
  /\ inst[i].pc = "scan"
  /\ out.op # "scan_files"
  /\ \E q \in Quotas :
       /\ inst[i].cmd = "daemon" => q.given /\ q.gb > 0
       /\ ScanStart(q, {})

\* cli.py lines 96-118 and 195-213: the records scan_files returned; with
\* none the run command returns 0 and the daemon records the key
TakeRecords(i) ==
  LET f == inst[i] IN
  /\ f.pc = "scan"
  /\ out.op = "scan_files"
  /\ out' = NoOut
  /\ inst' = [inst EXCEPT ![i] =
       IF out.records = <<>>
       THEN IF f.cmd = "daemon" THEN [f EXCEPT !.pc = "mark"] ELSE Leave(f, "0")
       ELSE [f EXCEPT !.pc = "upload", !.records = out.records, !.k = 1,
                      !.attempt = 1, !.acked = {}]]
  /\ UNCHANGED <<serverVars, authRows, issued, disk, files, scan,
                 lockFile, stateFile, tmpFile, today, done>>

WriteInPlace(doc) ==
  /\ stateFile' = doc
  /\ tmpFile' = tmpFile

\* _atomic_write_json, state.py lines 23-24: write_text puts the document
\* into the temporary file, which holds a part of it until the write ends
WriteTmp(doc) ==
  /\ tmpFile' = doc
  /\ stateFile' = stateFile

\* save_state, state.py lines 46-54 and 21-25, in three steps: the
\* temporary file is opened, the document is written, os.replace puts it
\* at state_path; then the command goes on (cli.py lines 117, 137-147,
\* 212, 224-226)
Save(i) ==
  LET f == inst[i]
      part == [exists |-> TRUE, complete |-> FALSE]
      doc == [exists |-> TRUE, complete |-> TRUE,
              files |-> files, last_run |-> f.last_run]
      last == f.k + BatchSize(f.batch) > Len(f.records)
  IN
  /\ f.pc \in {"save", "save_write", "save_replace"}
  /\ CASE f.pc = "save" ->
            /\ WriteTmp(part)
            /\ inst' = [inst EXCEPT ![i] = [f EXCEPT !.pc = "save_write"]]
       [] f.pc = "save_write" ->
            /\ WriteTmp(doc)
            /\ inst' = [inst EXCEPT ![i] = [f EXCEPT !.pc = "save_replace"]]
       [] OTHER ->
            /\ stateFile' = tmpFile
            /\ tmpFile' = NoFile
            /\ inst' = [inst EXCEPT ![i] =
                 IF f.after = "mark" THEN Sleep(f)
                 ELSE IF ~last
                 THEN [f EXCEPT !.pc = "upload", !.k = @ + BatchSize(f.batch)]
                 ELSE IF f.cmd = "daemon" THEN [f EXCEPT !.pc = "mark"]
                 ELSE Leave(f, "0")]
  /\ UNCHANGED <<serverVars, out, authRows, issued, disk, files, scan,
                 lockFile, today, done>>

\* _cmd_daemon, lines 224-225 and 242-243: the key is recorded as run on
\* the day the scan was started, and the state is saved
Mark(i) ==
  /\ inst[i].pc = "mark"
  /\ inst' = [inst EXCEPT ![i] =
                [@ EXCEPT !.pc = "save", !.after = "mark",
                          !.last_run = DateIso(inst[i].day)]]
  /\ UNCHANGED <<serverVars, out, authRows, issued, disk, files, scan,
                 lockFile, stateFile, tmpFile, today, done>>

\* midnight UTC passes
Tick ==
  /\ today < MaxDay
  /\ today' = today + 1
  /\ UNCHANGED <<serverVars, out, authRows, issued, disk, files, scan,
                 inst, lockFile, stateFile, tmpFile, done>>

\* a client with the given files on disk and no state file yet
InitDisk(disks) ==
  /\ ServerInit
  /\ authRows = {}
  /\ issued = 0
  /\ disk \in disks
  /\ files = [p \in ScanPaths |-> ""]
  /\ scan = IdleScan
  /\ ClientInit

\* the scan of the process that is in the with-block
ClientScanSteps ==
  \/ \E i \in Instances : ClientScan(i)
  \/ ScanSkip
  \/ ScanHash
  \/ ScanReturn

LockSteps ==
  \/ \E i \in Instances : AcquireOpen(i)
  \/ \E i \in Instances : AcquireInstall(i)
  \/ \E i \in Instances : ReleaseStep(i)

\* the steps of the commands, with the given outcomes of their requests
RunSteps(resps) ==
  \/ \E i \in Instances : Load(i)
  \/ \E i \in Instances, match \in BOOLEAN : Poll(i, match)
  \/ \E i \in Instances, resp \in resps : Http(i, resp)
  \/ ClientScanSteps
  \/ \E i \in Instances : TakeRecords(i)
  \/ \E i \in Instances : Save(i)
  \/ \E i \in Instances : Mark(i)

Ok200 == [kind |-> "response", status |-> 200, body_ok |-> TRUE]
Unauthorized == [kind |-> "response", status |-> 401, body_ok |-> TRUE]

\* two files on disk, enumerated against the order of their paths; the
\* first of them may be one that cannot be hashed
InitClient ==
  InitDisk({d \in Disks({1}, BOOLEAN) :
              /\ Len(d) = 2
              /\ \A j \in 1..Len(d) : PathRank(d[j].path) = Len(d) + 1 - j
              /\ d[2].hashable})

\* run and daemon commands on one state path, requests that succeed or
\* fail for good, and days that pass
NextClient ==
  \/ \E i \in Instances, cmd \in {"run", "daemon"}, b \in 1..MaxBatchRecords :
        Start(i, cmd, 1, b)
  \/ LockSteps
  \/ RunSteps({Ok200, Unauthorized})
  \/ Tick

SpecClient == InitClient /\ [][NextClient]_vars

\* one file on disk
InitLock == InitDisk({d \in Disks({1}, BOOLEAN) : Len(d) = 1})

\* commands whose requests succeed, and the signals that reach them
NextLock ==
  \/ \E i \in Instances, cmd \in {"run", "daemon"} : Start(i, cmd, 1, 1)
  \/ LockSteps
  \/ RunSteps({Ok200})
  \/ \E i \in Instances, sig \in {"SIGTERM", "SIGINT"} : Signal(i, sig)

SpecLock == InitLock /\ [][NextLock]_vars

\* one process at a time, with any number of retries configured and any
\* outcome of each request
NextUpload ==
  \/ \E cmd \in {"run", "daemon"}, r \in 0..MaxRetries : Start("p1", cmd, r, 1)
  \/ LockSteps
  \/ RunSteps(Responses)

SpecUpload == InitLock /\ [][NextUpload]_vars

\* save_state raises in the daemon before it has written anything (the
\* temporary file cannot be opened, state.py line 23): the loop catches the
\* exception and sleeps (cli.py lines 245-247); what the loop has put into
\* its state object stays there
SaveFails(i) ==
  LET f == inst[i] IN
  /\ f.cmd = "daemon"
  /\ f.pc = "save"
  /\ inst' = [inst EXCEPT ![i] = Sleep(f)]
  /\ UNCHANGED <<serverVars, out, authRows, issued, disk, files, scan,
                 lockFile, stateFile, tmpFile, today, done>>

\* the commands on one state path, with a state file that cannot always
\* be written
NextDaemon ==
  \/ NextClient
  \/ \E i \in Instances : SaveFails(i)

SpecDaemon == InitClient /\ [][NextDaemon]_vars

\* scan_files as the run command calls it without --quota-gb (cli.py line 95)
RunScan(i) ==
  /\ inst[i].pc = "scan"
  /\ out.op # "scan_files"
  /\ ScanStart([given |-> FALSE, gb |-> 0], {})

\* the run command, started again whenever it has ended, with requests
\* that succeed and no quota
NextRounds ==
  \/ \E b \in 1..MaxBatchRecords : Start("p1", "run", 1, b)
  \/ LockSteps
  \/ Load("p1")
  \/ Http("p1", Ok200)
  \/ RunScan("p1")
  \/ ScanSkip
  \/ ScanHash
  \/ ScanReturn
  \/ TakeRecords("p1")
  \/ Save("p1")
  \/ Tick

SpecRounds == InitClient /\ [][NextRounds]_vars

\* fairness: a started command takes its next step, and the command is
\* started again after it has ended
FairRounds == SpecRounds /\ WF_vars(NextRounds)

\* ------------------------------------------- ingest requests at once ----
\* the ingest requests the server has received and not yet answered are
\* tasks of one event loop
Requests == {"r1", "r2"}

\* an ingest request that has not arrived
IdleRequest ==
  [pc |-> "idle", recs |-> <<>>, changed |-> <<>>, status |-> 0,
   beside |-> FALSE]

AfterLookupYields(r) == "none"

\* ingest, lines 111-148: the awaits of the handler are calls of buffer
\* methods whose lock is free, and the query of line 113 is a blocking
\* call, so the handler's task does not suspend between its lookup and its
\* enqueue and still owns the loop
AfterLookup(r) == r

\* a request with a valid token arrives: its task is created
Arrive(r, recs) ==
  /\ UNCHANGED outside
  /\ ~stopReq
  /\ ing[r] = IdleRequest
  /\ ing' = [ing EXCEPT ![r] = [IdleRequest EXCEPT !.pc = "ready", !.recs = recs]]
  /\ out' = NoOut
  /\ UNCHANGED <<pending, cache, wakeup, stopReq, committed, wpc, fl, running,
                 failures, accepted, lastUpd, rd>>

\* ingest, lines 104-127, for one of the requests
IngestLookup(r) ==
  /\ UNCHANGED outside
  /\ running = "none"
  /\ ing[r].pc = "ready"
  /\ Len(accepted) + Len(ing[r].recs) <= MaxRows
  /\ LET m == RequireMachineName("t1")
         paths == {ing[r].recs[i].path : i \in 1..Len(ing[r].recs)}
         cached == CachedLatest(cache, m, paths)
         missing == paths \ DOMAIN cached
         dbPrev == LatestShaByPath(committed, m, missing)
     IN /\ cache' = IF DOMAIN dbPrev = {} THEN cache
                    ELSE PrimeLatest(cache, m, dbPrev)
        /\ ing' = [ing EXCEPT ![r] =
                     [@ EXCEPT !.pc = "enqueue",
                               !.changed = Changed(ing[r].recs,
                                                   MergePrev(dbPrev, cached)),
                               !.beside = \E q \in Requests \ {r} :
                                            ing[q].pc = "ready"]]
  /\ running' = AfterLookup(r)
  /\ out' = NoOut
  /\ UNCHANGED <<pending, wakeup, stopReq, committed, wpc, fl, failures,
                 accepted, lastUpd, rd>>

\* ingest, lines 129-198, for one of the requests
IngestAnswer(r) ==
  /\ UNCHANGED outside
  /\ ing[r].pc = "enqueue"
  /\ running \in {r, "none"}
  /\ LET m == RequireMachineName("t1")
         rows == Rows(m, ing[r].recs)
         status == IF EnqueueResult(rows) = "full" THEN 503 ELSE 200
     IN /\ Enqueue(m, rows, LatestUpdates(ing[r].recs))
        /\ out' = IF status = 503
                  THEN [op |-> "ingest", status |-> 503, tok |-> "t1"]
                  ELSE [op |-> "ingest", status |-> 200, tok |-> "t1",
                        inserted |-> Len(ing[r].recs),
                        changed |-> ing[r].changed,
                        duplicates |-> Duplicates(ing[r].recs, committed)]
        /\ ing' = [ing EXCEPT ![r] = [@ EXCEPT !.pc = "idle", !.status = status]]
  /\ running' = "none"
  /\ UNCHANGED <<stopReq, committed, wpc, fl, failures, rd>>

\* the server starts on the rows an earlier run committed; two requests
\* are still to come
InitRace ==
  \E m \in Machines, recs \in SeqsUpTo(Records, MaxStored) :
    /\ pending = <<>>
    /\ cache = [k \in Keys |-> None]
    /\ wakeup = FALSE
    /\ stopReq = FALSE
    /\ committed = [i \in 1..Len(recs) |->
                      [id |-> i, m |-> m, path |-> recs[i].path,
                       sha |-> recs[i].sha, name |-> recs[i].name]]
    /\ wpc = "wait"
    /\ fl = [c \in Callers |-> IdleFrame]
    /\ running = "none"
    /\ failures = 0
    /\ accepted = committed
    /\ lastUpd = [k \in Keys |-> None]
    /\ rd = IdleRead
    /\ ing = [r \in Requests |-> IdleRequest]
    /\ out = NoOut
    /\ OutsideInit

\* two POST /ingest of one record each, and the background worker
NextRace ==
  \/ Worker
  \/ \E r \in Requests, rec \in Records : Arrive(r, <<rec>>)
  \/ \E r \in Requests : IngestLookup(r)
  \/ \E r \in Requests : IngestAnswer(r)

SpecRace == InitRace /\ [][NextRace]_vars

\* ---------------------------------------------------------- shutdown ----
\* The buffer around a stop request, under the conditions of a clean
\* shutdown: nothing is enqueued once stop was requested (_shutdown,
\* main.py lines 37-42, runs when the server takes no more requests) and
\* the storage step of no flush fails from then on.
NextShutdown ==
  \/ WorkerWake
  \/ WorkerSleepDone
  \/ FlushSteps /\ (stopReq => failures' = failures)
  \/ Stop
  \/ \E m \in Machines, n \in 1..MaxRecs, d \in Dicts :
       ~stopReq /\ ApiEnqueue(m, n, d)
  \/ \E maxRows \in {FlushMaxRows, NoCap} : ApiFlush(maxRows)

SpecShutdown == Init /\ [][NextShutdown]_vars

\* fairness: the event loop runs its ready tasks in turn, so a handler that
\* is under way is continued, and the worker is resumed once its timer
\* (wait_for, sleep) has fired, however many requests arrive
FairSpec ==
  /\ Spec
  /\ SF_vars(WorkerWake) /\ SF_vars(WorkerSleepDone)
  /\ WF_vars(FlushSteps) /\ WF_vars(IngestEnqueue) /\ WF_vars(ReadQuery)

\* ============================================================ claims ====
\* where the rows of a sequence of rows are
AcceptedIds == 1..Len(accepted)
Places(i) ==
  (IF i \in Ids(pending) THEN 1 ELSE 0)
  + (IF i \in Ids(committed) THEN 1 ELSE 0)
  + Cardinality({c \in Callers : fl[c].pc # "idle" /\ i \in Ids(fl[c].batch)})

\* C1: an ingest whose rows would pass the ceiling is rejected whole: queue,
\* cache and the record of admitted rows stay as they were, and the answer
\* is 503.
C1_RejectedWhole ==
  [][(/\ ing.pc = "enqueue"
      /\ ing'.pc = "idle"
      /\ Len(pending) + Len(ing.recs) > MaxPendingRows)
     => (/\ pending' = pending
         /\ cache' = cache
         /\ accepted' = accepted
         /\ out'.op = "ingest"
         /\ out'.status = 503)]_vars

\* C1, for a direct call of the method: a call that raises BufferFullError
\* leaves queue, cache and the record of admitted rows as they were
C1_DirectRejectedWhole ==
  [][(out'.op = "enqueue" /\ out'.res = "full")
     => (pending' = pending /\ cache' = cache /\ accepted' = accepted)]_vars

C1_Witness ==
  /\ out.op = "ingest"
  /\ out.status = 503
  /\ pending # <<>>
  /\ \E k \in Keys : cache[k] # None

\* C2: the queue never holds more than max_pending_rows rows.
C2_Bounded == Len(pending) <= MaxPendingRows

\* a direct flush has just failed and put its rows back into a queue that
\* is at the ceiling again
C2_Witness ==
  /\ out.op = "flush"
  /\ out.res = "sqlite"
  /\ Len(pending) = MaxPendingRows

\* C3: a flush that ends after its storage step failed has put its batch
\* back at the head of the queue and has committed nothing.
C3_PutBackOnFailure ==
  [][\A c \in Callers :
       (/\ fl[c].pc \in {"storage", "putback"}
        /\ fl'[c].pc = "idle"
        /\ (failures' > failures \/ fl[c].pc = "putback"))
       => (/\ pending' = fl[c].batch \o pending
           /\ committed' = committed)]_vars

\* C3, the part that holds: a sqlite3.Error puts the batch back at the head
C3_SqliteErrorPutsBack ==
  [][\A c \in Callers :
       (fl[c].pc = "putback" /\ fl'[c].pc = "idle")
       => (/\ pending' = fl[c].batch \o pending
           /\ committed' = committed)]_vars

\* C4: rows are committed in the order enqueue admitted them, each once.
C4_FifoOnce ==
  \A i, j \in 1..Len(committed) : i < j => committed[i].id < committed[j].id

\* rows were committed around a failed flush, which put its rows back
C4_Witness ==
  /\ out.op = "flush"
  /\ out.res = "some"
  /\ Len(committed) >= 2
  /\ failures >= 1
  /\ \A i \in AcceptedIds : Places(i) = 1

\* C5: every admitted row is in exactly one of the queue, the batch of a
\* flush under way, and storage.
C5_NoRowDropped == \A i \in AcceptedIds : Places(i) = 1

\* C5, the part that holds: no admitted row is ever in two places
C5_NeverTwice == \A i \in AcceptedIds : Places(i) <= 1

\* C6: while the worker is running, every admitted row is committed in the
\* end.
C6_EventuallyCommitted ==
  \A i \in 1..MaxRows :
    (i \in AcceptedIds) ~> (i \in Ids(committed) \/ wpc \in {"done", "dead"})

\* C6, the part that holds: a row that no flush has dropped is committed in
\* the end, or the worker has ended
C6_CommittedUnlessDropped ==
  \A i \in 1..MaxRows :
    (i \in AcceptedIds)
      ~> (i \in Ids(committed) \/ wpc \in {"done", "dead"} \/ Places(i) = 0)

\* the answer of cached_latest_sha_by_path for one key
CachedFor(c, k) == CachedLatest(c, k[1], {k[2]})

C8_PrimeKeepsExisting ==
  [][out'.op = "prime"
     => \A k \in Keys :
          /\ cache[k] # None => cache'[k] = cache[k]
          /\ (k[1] # out'.m \/ k[2] \notin DOMAIN out'.d) => cache'[k] = cache[k]
          /\ lastUpd[k] # None => cache'[k] = lastUpd[k]]_vars

\* a prime call has just offered another hash for a key whose entry an
\* enqueue had written, and the entry is as the enqueue left it
C8_Witness ==
  /\ out.op = "prime"
  /\ \E p \in DOMAIN out.d :
       /\ lastUpd[<<out.m, p>>] # None
       /\ out.d[p] # lastUpd[<<out.m, p>>]
       /\ cache[<<out.m, p>>] = lastUpd[<<out.m, p>>]

\* the admitted rows a query is about
Asked(kind, key) ==
  {i \in AcceptedIds :
     IF kind = "file" THEN accepted[i].sha = key ELSE accepted[i].m = key}

\* C9: a read whose flush met a healthy storage returns every record that an
\* ingest has answered 200 for and that the query is about (when the limit
\* leaves room for all of them).
C9_ReadYourWrites ==
  (/\ out.op = "read"
   /\ out.status = 200
   /\ out.flush \in {"zero", "some"}
   /\ Cardinality(Asked(out.kind, out.key)) <= out.limit)
  => Asked(out.kind, out.key) \subseteq out.ids

\* C9, the part that holds: such a read returns every such record that no
\* flush has dropped
C9_UnlessDropped ==
  (/\ out.op = "read"
   /\ out.status = 200
   /\ out.flush \in {"zero", "some"}
   /\ Cardinality(Asked(out.kind, out.key)) <= out.limit)
  => {i \in Asked(out.kind, out.key) : Places(i) = 1} \subseteq out.ids

\* C10: when the flush of a read request ends after its storage step
\* failed, the handler goes on to its query and the batch is back in the
\* queue.
C10_ReadSurvivesFlushFailure ==
  [][(/\ fl["reader"].pc \in {"storage", "putback"}
      /\ fl'["reader"].pc = "idle"
      /\ (failures' > failures \/ fl["reader"].pc = "putback"))
     => (/\ rd'.pc = "query"
         /\ pending' = fl["reader"].batch \o pending)]_vars

\* C10, the part that holds: after a sqlite3.Error the handler goes on
C10_SqliteErrorSwallowed ==
  [][(fl["reader"].pc = "putback" /\ fl'["reader"].pc = "idle")
     => (/\ rd'.pc = "query"
         /\ pending' = fl["reader"].batch \o pending
         /\ committed' = committed)]_vars

\* the step that ends an ingest request with the 200 response
IngestAnswers200 ==
  /\ ing.pc = "enqueue"
  /\ out'.op = "ingest"
  /\ out'.status = 200

\* the changed entries of a response that are about one record
EntriesFor(changed, r) ==
  {k \in 1..Len(changed) :
     changed[k].file_path = r.path /\ changed[k].new_sha256 = r.sha}

\* the records of a machine for a path that were accepted before the
\* request under way
EarlierFor(m, p) ==
  {i \in AcceptedIds : accepted[i].m = m /\ accepted[i].path = p}

\* C11 as stated: a request carrying path p with hash h reports a changed
\* entry for p exactly when some earlier accepted record of p has another
\* hash, and previous_sha256 is the hash of the latest accepted record of p.
C11_ChangedIffAnyEarlierDiffers ==
  [][IngestAnswers200
     => \A j \in 1..Len(ing.recs) :
          /\ (EntriesFor(out'.changed, ing.recs[j]) # {})
               <=> (\E i \in EarlierFor(ing.m, ing.recs[j].path) :
                      accepted[i].sha # ing.recs[j].sha)
          /\ \A k \in EntriesFor(out'.changed, ing.recs[j]) :
               out'.changed[k].previous_sha256
                 = accepted[LastIndex(accepted, ing.m, ing.recs[j].path)].sha]_vars

\* C11: a request carrying path p with hash h reports a changed entry for p
\* exactly when the latest earlier accepted record of p, pending or
\* committed, has another hash; previous_sha256 is that hash; every entry is
\* about a record of the request, so the first ingest of a path reports no
\* change.
C11_ChangedIffLatestDiffers ==
  [][IngestAnswers200
     => /\ \A j \in 1..Len(ing.recs) :
             LET r == ing.recs[j]
                 last == LastIndex(accepted, ing.m, r.path)
             IN /\ (EntriesFor(out'.changed, r) # {})
                      <=> (last > 0 /\ accepted[last].sha # r.sha)
                /\ \A k \in EntriesFor(out'.changed, r) :
                      out'.changed[k].previous_sha256 = accepted[last].sha
        /\ \A k \in 1..Len(out'.changed) :
             \E j \in 1..Len(ing.recs) :
               k \in EntriesFor(out'.changed, ing.recs[j])]_vars

\* a response has just reported a change against a record that is still
\* pending, for a path whose committed record has the hash of the request
C11_Witness ==
  /\ out.op = "ingest"
  /\ out.status = 200
  /\ Len(out.changed) = 1
  /\ Len(accepted) = 3
  /\ accepted[1].path = accepted[2].path
  /\ accepted[2].path = accepted[3].path
  /\ accepted[1].sha = accepted[3].sha
  /\ accepted[2].sha # accepted[3].sha
  /\ out.changed[1].previous_sha256 = accepted[2].sha
  /\ 1 \in Ids(committed)
  /\ 2 \in Ids(pending)

\* C12: the response of one ingest call has at most one changed entry for
\* each distinct file_path.
C12_OneEntryPerPath ==
  (out.op = "ingest" /\ out.status = 200)
  => \A k1, k2 \in 1..Len(out.changed) :
       out.changed[k1].file_path = out.changed[k2].file_path => k1 = k2

\* C12, the part that holds: a request whose records have distinct paths is
\* answered with at most one changed entry for each path
C12_OneEntryPerRecord ==
  [][(/\ IngestAnswers200
      /\ \A j1, j2 \in 1..Len(ing.recs) :
           ing.recs[j1].path = ing.recs[j2].path => j1 = j2)
     => \A k1, k2 \in 1..Len(out'.changed) :
          out'.changed[k1].file_path = out'.changed[k2].file_path
            => k1 = k2]_vars

\* C14: an ingest request whose Authorization header is missing, is not a
\* Bearer header or carries a token nobody was issued is answered 401, and
\* queue, cache, storage and the record of admitted rows stay as they were.
C14_UnauthorizedNoEffect ==
  [][(out'.op = "ingest" /\ out'.tok \in {"bad", "malformed", "missing"})
     => (/\ out'.status = 401
         /\ pending' = pending
         /\ cache' = cache
         /\ wakeup' = wakeup
         /\ committed' = committed
         /\ accepted' = accepted)]_vars

\* a request with an unknown token has just been answered 401 while rows are
\* pending and a committed row is there that the cache does not hold
C14_Witness ==
  /\ out.op = "ingest"
  /\ out.status = 401
  /\ out.tok = "bad"
  /\ pending # <<>>
  /\ \E i \in 1..Len(committed) :
       cache[<<committed[i].m, committed[i].path>>] = None

\* the values of a field that go with a hash, over the rows in storage and
\* the records of a request
AllNames(sha, recs, rows) ==
  {recs[j].name : j \in {i \in 1..Len(recs) : recs[i].sha = sha}}
  \cup {rows[j].name : j \in {i \in 1..Len(rows) : rows[i].sha = sha}}
AllPaths(sha, recs, rows) ==
  {recs[j].path : j \in {i \in 1..Len(recs) : recs[i].sha = sha}}
  \cup {rows[j].path : j \in {i \in 1..Len(rows) : rows[i].sha = sha}}

\* the duplicate entries a 200 response should carry for a request
Expected(recs, rows) ==
  {[sha256 |-> sha,
    distinct_file_names |-> Cardinality(AllNames(sha, recs, rows)),
    distinct_file_paths |-> Cardinality(AllPaths(sha, recs, rows))] :
     sha \in {h \in ShaSet(recs) :
                \/ Cardinality(AllNames(h, recs, rows)) > 1
                \/ Cardinality(AllPaths(h, recs, rows)) > 1}}

\* C13: the response lists a hash of the request as a duplicate exactly when
\* the distinct file names or the distinct file paths that go with it, over
\* the rows in storage and the records of the request, are more than one,
\* and the reported counts are those numbers.
C13_DuplicatesCounted ==
  [][IngestAnswers200
     => out'.duplicates = Expected(ing.recs, committed)]_vars

\* C13, the part that holds: when no file name and no file path in storage
\* is empty
C13_NonEmptyFields ==
  [][(/\ IngestAnswers200
      /\ \A i \in 1..Len(committed) :
           committed[i].name # "" /\ committed[i].path # "")
     => out'.duplicates = Expected(ing.recs, committed)]_vars

\* no machine name has two rows and no token is in two rows
OneTokenEach ==
  \A r1, r2 \in authRows :
    (r1.machine_name = r2.machine_name \/ r1.token = r2.token) => r1 = r2

\* C15: every machine name has at most one valid token and every token
\* belongs to at most one machine; the step of a successful
\* create_or_rotate_token for M ends with the new token as the only one
\* that authenticates M, so the old token stops and the new one starts
\* authenticating M in the same step.
C15_OneTokenRotatedAtOnce ==
  /\ []OneTokenEach
  /\ [][(out'.op = "create_or_rotate_token" /\ out'.res = "ok")
        => (/\ ValidTokens(authRows', out'.m) = {out'.token}
            /\ Authenticates(authRows', out'.token) = {out'.m}
            /\ \A t \in ValidTokens(authRows, out'.m) :
                 Authenticates(authRows', t) = {})]_vars

\* a machine's token has just been rotated while another machine holds a
\* token
C15_Witness ==
  /\ out.op = "create_or_rotate_token"
  /\ out.res = "ok"
  /\ out.token = 3
  /\ out.m = "m1"
  /\ authRows = {[machine_name |-> "m1", token |-> 3],
                 [machine_name |-> "m2", token |-> 2]}

\* where a path is in a list of entries (0: nowhere)
Pos(entries, p) ==
  IF \E i \in 1..Len(entries) : entries[i].path = p
  THEN CHOOSE i \in 1..Len(entries) : entries[i].path = p
  ELSE 0

\* the enumerated paths whose stored value is no timestamp
NoStamp == {disk[i].path : i \in {j \in 1..Len(disk) :
                                    files[disk[j].path] \in {"", "not-a-date"}}}

\* C16: when some enumerated file has no parseable last-scan timestamp,
\* select_files_for_run returns the files without one, each once, in the
\* order of the enumeration, and no file that has one.
C16_UnscannedOnly ==
  (out.op = "select_files_for_run" /\ NoStamp # {})
  => /\ {out.sel[i].path : i \in 1..Len(out.sel)} = NoStamp
     /\ Len(out.sel) = Cardinality(NoStamp)
     /\ \A i, j \in 1..Len(out.sel) :
          i < j => Pos(disk, out.sel[i].path) < Pos(disk, out.sel[j].path)

\* three files are enumerated, the second has a timestamp and the others
\* have none
C16_Witness ==
  /\ out.op = "select_files_for_run"
  /\ Len(disk) = 3
  /\ Len(out.sel) = 2
  /\ out.sel[1] = disk[1]
  /\ out.sel[2] = disk[3]
  /\ PathRank(disk[3].path) < PathRank(disk[1].path)
  /\ files[disk[1].path] = "not-a-date"

\* the instant of the last scan of a path
ScannedAt(p) ==
  CASE files[p] \in {"2026-01-01", "2026-01-01T01:00:00+01:00"} -> 1
    [] files[p] = "2026-01-03T00:00:00+00:00" -> 3
    [] OTHER -> 0

\* C17: when every enumerated file has a parseable last-scan timestamp,
\* select_files_for_run returns all enumerated files, ascending by
\* (timestamp, path).
C17_SortedByStampThenPath ==
  (out.op = "select_files_for_run" /\ NoStamp = {})
  => /\ {out.sel[i] : i \in 1..Len(out.sel)} = {disk[i] : i \in 1..Len(disk)}
     /\ Len(out.sel) = Len(disk)
     /\ \A i, j \in 1..Len(out.sel) :
          i < j
          => \/ ScannedAt(out.sel[i].path) < ScannedAt(out.sel[j].path)
             \/ /\ ScannedAt(out.sel[i].path) = ScannedAt(out.sel[j].path)
                /\ PathRank(out.sel[i].path) < PathRank(out.sel[j].path)

\* three files with timestamps, enumerated in another order than returned:
\* the oldest two are of the same instant, written differently, and come in
\* the order of their paths
C17_Witness ==
  /\ out.op = "select_files_for_run"
  /\ Len(out.sel) = 3
  /\ out.sel[1] = disk[3]
  /\ out.sel[2] = disk[2]
  /\ files[out.sel[1].path] = "2026-01-01T01:00:00+01:00"
  /\ files[out.sel[2].path] = "2026-01-01"
  /\ files[out.sel[3].path] = "2026-01-03T00:00:00+00:00"

\* the files of a run that can be hashed: selected, not to be skipped, and
\* readable; as the records scan_files makes of them
Candidates(sel, skip) ==
  LET c == SelectSeq(sel, LAMBDA en : en.path \notin skip /\ en.hashable)
  IN [i \in 1..Len(c) |-> [file_path |-> c[i].path,
                           size_bytes |-> c[i].size_bytes]]

RECURSIVE SumSizes(_)
SumSizes(records) ==
  IF records = <<>> THEN 0
  ELSE records[1].size_bytes + SumSizes(Tail(records))

\* C18: under a positive quota, scan_files starts hashing a file only while
\* the bytes of the files it has hashed are below the quota (or it has
\* hashed none), and when it returns it has hashed a file if the run had a
\* file that can be hashed, and the bytes hashed before the last hashed
\* file are below the quota.
C18_StopsAtQuota ==
  [][(scan.pc = "loop" /\ scan.quota.given /\ scan.quota.gb > 0)
     => /\ (scan'.pc = "loop" /\ Len(scan'.records) > Len(scan.records))
            => \/ scan.records = <<>>
               \/ SumSizes(scan.records) < scan.quota.gb * GiB
        /\ out'.op = "scan_files"
            => /\ Candidates(out'.sel, out'.skip) # <<>> => out'.records # <<>>
               /\ out'.records # <<>>
                    => SumSizes(SubSeq(out'.records, 1, Len(out'.records) - 1))
                         < out'.quota.gb * GiB]_vars

\* a run under a quota of 1 GiB has returned two records that reach the
\* quota together, and has left a third file unhashed
C18_Witness ==
  /\ out.op = "scan_files"
  /\ out.quota = [given |-> TRUE, gb |-> 1]
  /\ Len(out.records) = 2
  /\ out.records[1].size_bytes < GiB
  /\ SumSizes(out.records) >= GiB
  /\ Len(Candidates(out.sel, out.skip)) = 3

\* C19 as stated: with quota 0 or without a quota, scan_files returns a
\* record for every file of the run that can be hashed, in the order of
\* the scheduler.
C19_ZeroOrNoQuotaScansAll ==
  (out.op = "scan_files" /\ (~out.quota.given \/ out.quota.gb = 0))
  => out.records = Candidates(out.sel, out.skip)

\* C19: without a quota, scan_files returns a record for every file of the
\* run that can be hashed, in the order of the scheduler.
C19_NoQuotaScansAll ==
  (out.op = "scan_files" /\ ~out.quota.given)
  => out.records = Candidates(out.sel, out.skip)

\* a run without a quota has returned three records of more than 2 GiB, in
\* another order than the enumeration
C19_Witness ==
  /\ out.op = "scan_files"
  /\ ~out.quota.given
  /\ Len(out.records) = 3
  /\ out.scanned_bytes > 2 * GiB
  /\ out.records[1].file_path = disk[3].path

\* C20: under a quota of 0, scan_files returns one record, that of the
\* first file of the run that can be hashed, or none when the run has no
\* such file.
C20_ZeroQuotaScansOne ==
  (out.op = "scan_files" /\ out.quota = [given |-> TRUE, gb |-> 0])
  => LET c == Candidates(out.sel, out.skip)
     IN out.records = IF c = <<>> THEN <<>> ELSE <<c[1]>>

\* a run under a quota of 0 has passed over an unreadable file and returned
\* the record of an empty file, the first of two files that can be hashed
C20_Witness ==
  /\ out.op = "scan_files"
  /\ out.quota = [given |-> TRUE, gb |-> 0]
  /\ Len(out.sel) = 3
  /\ ~out.sel[1].hashable
  /\ Len(Candidates(out.sel, out.skip)) = 2
  /\ Len(out.records) = 1
  /\ out.records[1].file_path = out.sel[2].path
  /\ out.records[1].size_bytes = 0

\* ------------------------------------------------- provenance graph ----
GapDays == 30             \* fetch_segments_for_sha256, line 63: gap_days
GraphLimit == 20000       \* fetch_segments_for_sha256, line 63: limit
GraphMaxLimit == 200000   \* fetch_segments_for_sha256, line 70
MaxGraphRows == 3         \* rows of file_record

GraphMachines == {"M1", "M2"}                     \* file_record.machine_name
GraphPaths == {"/a/file.bin", "/b/file.bin"}      \* file_record.file_path

\* the urn of a row, as urn.split(":") gives it, and its scan_ts: RecordIn
\* takes any str for urn
GraphStamps ==
  {[urn |-> <<"">>, scan_ts |-> ts] :
     ts \in {"2026-01-01T00:00:00+00:00", "2026-01-02T00:00:00+00:00",
             "2026-01-03T00:00:00+00:00", "2026-02-01T00:00:00+00:00"}}
  \cup {[urn |-> <<"u", "2026-01-02">>, scan_ts |-> "2026-01-01T00:00:00+00:00"],
        [urn |-> <<"u", "x">>, scan_ts |-> ""]}

\* the rows of file_record: rows of hash h1 for every machine, path and
\* stamp, and one row of hash h2
GraphRows ==
  {[machine_name |-> m, file_path |-> p, file_name |-> "file.bin",
    sha256 |-> "h1", urn |-> s.urn, scan_ts |-> s.scan_ts] :
     m \in GraphMachines, p \in GraphPaths, s \in GraphStamps}
  \cup {[machine_name |-> "M1", file_path |-> "/a/file.bin",
         file_name |-> "file.bin", sha256 |-> "h2", urn |-> <<"">>,
         scan_ts |-> "2026-01-02T00:00:00+00:00"]}

\* date.fromisoformat(s) succeeds
IsDate(s) ==
  s \in {"1970-01-01", "2026-01-01", "2026-01-02", "2026-01-03", "2026-02-01"}

\* date.fromisoformat(d), as the number of days since 1970-01-01; the order
\* of the numbers is the order of the strings
DateOrdinal(d) ==
  CASE d = "2026-01-01" -> 20454
    [] d = "2026-01-02" -> 20455
    [] d = "2026-01-03" -> 20456
    [] d = "2026-02-01" -> 20485
    [] OTHER -> 0

\* datetime.fromisoformat(scan_ts).date().isoformat()
TsDate(ts) ==
  CASE ts = "2026-01-01T00:00:00+00:00" -> [ok |-> TRUE, date |-> "2026-01-01"]
    [] ts = "2026-01-02T00:00:00+00:00" -> [ok |-> TRUE, date |-> "2026-01-02"]
    [] ts = "2026-01-03T00:00:00+00:00" -> [ok |-> TRUE, date |-> "2026-01-03"]
    [] ts = "2026-02-01T00:00:00+00:00" -> [ok |-> TRUE, date |-> "2026-02-01"]
    [] OTHER -> [ok |-> FALSE, date |-> ""]

\* _base_urn, graph.py lines 21-25
BaseUrn(urn) ==
  IF Len(urn) < 2 THEN urn ELSE SubSeq(urn, 1, Len(urn) - 1)

\* _scan_date_from_urn_or_ts, graph.py lines 28-44
ScanDateFromUrnOrTs(urn, scan_ts) ==
  IF Len(urn) >= 2 /\ IsDate(urn[Len(urn)]) THEN urn[Len(urn)]
  ELSE IF scan_ts # "" /\ TsDate(scan_ts).ok THEN TsDate(scan_ts).date
  ELSE "1970-01-01"

\* _split_dates_by_gap, graph.py lines 47-59
RECURSIVE SplitDatesByGap(_, _)
SplitDatesByGap(dates, gap_days) ==
  IF dates = <<>> THEN <<>>
  ELSE IF Len(dates) = 1 THEN <<dates>>
  ELSE LET groups == SplitDatesByGap(SubSeq(dates, 1, Len(dates) - 1), gap_days)
           prev == dates[Len(dates) - 1]
           curr == dates[Len(dates)]
       IN IF DateOrdinal(curr) - DateOrdinal(prev) > gap_days
          THEN Append(groups, <<curr>>)
          ELSE [groups EXCEPT ![Len(groups)] = Append(@, curr)]

\* sorted(set(dates)), graph.py line 92
RECURSIVE SortedDates(_)
SortedDates(S) ==
  IF S = {} THEN <<>>
  ELSE LET d == CHOOSE x \in S : \A y \in S : DateOrdinal(x) <= DateOrdinal(y)
       IN <<d>> \o SortedDates(S \ {d})

\* the order of str on machine names, on scan_ts values and on base urns
MachineRank(m) == IF m = "M1" THEN 1 ELSE 2
TsRank(ts) == IF TsDate(ts).ok THEN DateOrdinal(TsDate(ts).date) ELSE 0
BaseRank(b) == IF b = <<"">> THEN 0 ELSE IF b = <<"M1", "u">> THEN 1 ELSE 2

\* ORDER BY machine_name ASC, scan_ts ASC, id ASC (graph.py line 76); the
\* id of a row is its position in the table
RowBefore(rows, i, j) ==
  \/ MachineRank(rows[i].machine_name) < MachineRank(rows[j].machine_name)
  \/ /\ rows[i].machine_name = rows[j].machine_name
     /\ \/ TsRank(rows[i].scan_ts) < TsRank(rows[j].scan_ts)
        \/ TsRank(rows[i].scan_ts) = TsRank(rows[j].scan_ts) /\ i < j

\* the rows the query of graph.py lines 71-80 returns: the first
\* max(1, min(limit, 200000)) rows of the hash in that order
FetchRows(rows, sha256, limit) ==
  LET found == {i \in 1..Len(rows) : rows[i].sha256 = sha256}
      lim == Max(1, Min(limit, GraphMaxLimit))
  IN {i \in found : Cardinality({j \in found : RowBefore(rows, j, i)}) < lim}

\* the keys of grouped, graph.py lines 82-89
GroupKeys(rows, ids) ==
  {[machine |-> rows[i].machine_name, base |-> BaseUrn(rows[i].urn)] : i \in ids}

\* grouped[(machine, base)], as a set
GroupDates(rows, ids, key) ==
  {ScanDateFromUrnOrTs(rows[i].urn, rows[i].scan_ts) :
     i \in {j \in ids : /\ rows[j].machine_name = key.machine
                        /\ BaseUrn(rows[j].urn) = key.base}}

\* the segments of one key, graph.py lines 91-106
GroupSegments(key, dates, gap_days) ==
  LET date_groups == SplitDatesByGap(SortedDates(dates), gap_days)
  IN {[machine_name |-> key.machine, base_urn |-> key.base,
       start_date |-> date_groups[idx][1],
       end_date |-> date_groups[idx][Len(date_groups[idx])],
       segment_index |-> idx - 1] : idx \in 1..Len(date_groups)}

\* the sort key of graph.py line 108
SegmentBefore(s, t) ==
  \/ MachineRank(s.machine_name) < MachineRank(t.machine_name)
  \/ /\ s.machine_name = t.machine_name
     /\ \/ DateOrdinal(s.start_date) < DateOrdinal(t.start_date)
        \/ /\ s.start_date = t.start_date
           /\ \/ BaseRank(s.base_urn) < BaseRank(t.base_urn)
              \/ /\ s.base_urn = t.base_urn
                 /\ s.segment_index < t.segment_index

\* segments.sort, graph.py line 108
RECURSIVE SortSegments(_)
SortSegments(S) ==
  IF S = {} THEN <<>>
  ELSE LET s == CHOOSE x \in S : \A y \in S \ {x} : SegmentBefore(x, y)
       IN <<s>> \o SortSegments(S \ {s})

\* fetch_segments_for_sha256, graph.py lines 62-110
FetchSegmentsForSha256(rows, sha256, limit, gap_days) ==
  LET ids == FetchRows(rows, sha256, limit)
  IN SortSegments(UNION {GroupSegments(key, GroupDates(rows, ids, key), gap_days) :
                           key \in GroupKeys(rows, ids)})

\* one call of fetch_segments_for_sha256 on the table
FetchSegments(sha256, limit) ==
  /\ out' = [op |-> "fetch_segments_for_sha256", sha256 |-> sha256,
             limit |-> limit,
             segments |-> FetchSegmentsForSha256(committed, sha256, limit, GapDays)]
  /\ UNCHANGED <<serverVars, outside>>

\* the table holds any rows, in any order of insertion
InitGraph ==
  /\ pending = <<>>
  /\ cache = [k \in Keys |-> None]
  /\ wakeup = FALSE
  /\ stopReq = FALSE
  /\ committed \in SeqsUpTo(GraphRows, MaxGraphRows)
  /\ wpc = "wait"
  /\ fl = [c \in Callers |-> IdleFrame]
  /\ running = "none"
  /\ failures = 0
  /\ accepted = <<>>
  /\ lastUpd = [k \in Keys |-> None]
  /\ rd = IdleRead
  /\ ing = IdleIngest
  /\ out = NoOut
  /\ OutsideInit

NextGraph ==
  \E sha256 \in Hashes, limit \in {1, GraphLimit} : FetchSegments(sha256, limit)

SpecGraph == InitGraph /\ [][NextGraph]_vars

\* ------------------------------------------------------- renderers ----
MaxSegments == 3          \* segments given to a renderer
NodeIdLimit == 120        \* _node_id, line 142: safe[:120]

\* ShaSegment values: base urns with and without the machine as prefix
Segments ==
  [machine_name : GraphMachines, base_urn : {<<"u">>, <<"M1", "u">>},
   start_date : {"2026-01-01", "2026-01-02"}, end_date : {"2026-01-02"},
   segment_index : {0, 1}]

\* by_machine[machine], graph.py lines 114-116: the segments of the
\* machine in the order of the list
ByMachine(segments, machine) ==
  SelectSeq(segments, LAMBDA s : s.machine_name = machine)

\* the keys of sorted(by_machine.items()), graph.py line 119
RECURSIVE SortedMachines(_)
SortedMachines(S) ==
  IF S = {} THEN <<>>
  ELSE LET m == CHOOSE x \in S : \A y \in S : MachineRank(x) <= MachineRank(y)
       IN <<m>> \o SortedMachines(S \ {m})

\* the segments in the order of the list
SegsAsGiven(segs) == segs

\* sorted(segs, key=(start_date, base_urn, segment_index)), graph.py
\* line 120: segments with equal keys keep the order of the list
RECURSIVE SegsSorted(_)
SegsSorted(segs) ==
  IF segs = <<>> THEN <<>>
  ELSE LET front == SegsSorted(SubSeq(segs, 1, Len(segs) - 1))
           s == segs[Len(segs)]
           k == Cardinality({j \in 1..Len(front) : ~SegmentBefore(s, front[j])})
       IN SubSeq(front, 1, k) \o <<s>> \o SubSeq(front, k + 1, Len(front))

\* the base urn without the prefix "machine:", graph.py lines 123-124
Disp(machine, base_urn) ==
  IF Len(base_urn) >= 2 /\ base_urn[1] = machine
  THEN Tail(base_urn) ELSE base_urn

\* the number of characters of the parts joined by one character each
RECURSIVE CharLen(_)
CharLen(parts) ==
  IF parts = <<>> THEN 0
  ELSE (IF parts[1] = "" THEN 0 ELSE IF parts[1] = "u" THEN 1
        ELSE IF parts[1] \in {"M1", "M2"} THEN 2 ELSE 4)
       + (IF Len(parts) > 1 THEN 1 ELSE 0) + CharLen(Tail(parts))

\* f"seg{segment_index}", graph.py line 139
SegSuffix(segment_index) ==
  CASE segment_index = 1 -> "seg1"
    [] segment_index = 2 -> "seg2"
    [] OTHER -> "seg3"

\* _node_id, graph.py lines 137-142: machine, base urn and suffix with
\* every ":" replaced by "_", as the parts that "_" separates, cut at 120
\* characters
NodeId(machine, base_urn, segment_index) ==
  LET raw == <<machine>> \o base_urn
             \o (IF segment_index > 0 THEN <<SegSuffix(segment_index)>> ELSE <<>>)
  IN IF CharLen(raw) <= NodeIdLimit THEN raw
     ELSE <<"cut">>

RECURSIVE Concat(_)
Concat(ss) == IF ss = <<>> THEN <<>> ELSE ss[1] \o Concat(Tail(ss))

\* render_ascii_chain, graph.py lines 113-134: one line per machine, one
\* part "{disp#n start..end}" per segment
RenderAsciiChain(segments) ==
  LET machines == SortedMachines({segments[k].machine_name : k \in 1..Len(segments)})
  IN [n \in 1..Len(machines) |->
        LET segs_sorted == SegsSorted(ByMachine(segments, machines[n]))
        IN [machine |-> machines[n],
            parts |-> [k \in 1..Len(segs_sorted) |->
                         [disp |-> Disp(machines[n], segs_sorted[k].base_urn),
                          seg_marker |-> IF segs_sorted[k].segment_index > 0
                                         THEN segs_sorted[k].segment_index + 1
                                         ELSE 0,
                          start_date |-> segs_sorted[k].start_date,
                          end_date |-> segs_sorted[k].end_date]]]]

\* the node and edge lines of one machine, graph.py lines 154-163 and
\* 177-187: a node line per segment, after it the edge from the node
\* before
NodeLines(machine, segs_sorted) ==
  Concat([k \in 1..Len(segs_sorted) |->
            <<[line |-> "node",
               nid |-> NodeId(machine, segs_sorted[k].base_urn,
                              segs_sorted[k].segment_index),
               disp |-> Disp(machine, segs_sorted[k].base_urn),
               start_date |-> segs_sorted[k].start_date,
               end_date |-> segs_sorted[k].end_date]>>
            \o (IF k > 1
                THEN <<[line |-> "edge",
                        prev_id |-> NodeId(machine, segs_sorted[k - 1].base_urn,
                                           segs_sorted[k - 1].segment_index),
                        nid |-> NodeId(machine, segs_sorted[k].base_urn,
                                       segs_sorted[k].segment_index)]>>
                ELSE <<>>)])

\* render_mermaid_flowchart, graph.py lines 145-165
RenderMermaidFlowchart(segments) ==
  LET machines == SortedMachines({segments[k].machine_name : k \in 1..Len(segments)})
  IN <<[line |-> "flowchart LR"]>>
     \o Concat([n \in 1..Len(machines) |->
                  <<[line |-> "subgraph", machine |-> machines[n]]>>
                  \o NodeLines(machines[n], SegsSorted(ByMachine(segments, machines[n])))
                  \o <<[line |-> "end"]>>])

\* render_dot, graph.py lines 168-190
RenderDot(segments) ==
  LET machines == SortedMachines({segments[k].machine_name : k \in 1..Len(segments)})
  IN <<[line |-> "digraph fim {"], [line |-> "rankdir=LR;"]>>
     \o Concat([n \in 1..Len(machines) |->
                  <<[line |-> "subgraph", machine |-> machines[n]],
                    [line |-> "label", machine |-> machines[n]]>>
                  \o NodeLines(machines[n], SegsSorted(ByMachine(segments, machines[n])))
                  \o <<[line |-> "}"]>>])
     \o <<[line |-> "}"]>>

\* one call of a renderer on the list of segments at hand
RenderAscii ==
  /\ "segments" \in DOMAIN out
  /\ out' = [op |-> "render_ascii_chain", segments |-> out.segments,
             text |-> RenderAsciiChain(out.segments)]
  /\ UNCHANGED <<serverVars, outside>>

RenderMermaid ==
  /\ "segments" \in DOMAIN out
  /\ out' = [op |-> "render_mermaid_flowchart", segments |-> out.segments,
             text |-> RenderMermaidFlowchart(out.segments)]
  /\ UNCHANGED <<serverVars, outside>>

RenderDotCall ==
  /\ "segments" \in DOMAIN out
  /\ out' = [op |-> "render_dot", segments |-> out.segments,
             text |-> RenderDot(out.segments)]
  /\ UNCHANGED <<serverVars, outside>>

\* a caller holds any list of segments
InitRender ==
  /\ pending = <<>>
  /\ cache = [k \in Keys |-> None]
  /\ wakeup = FALSE
  /\ stopReq = FALSE
  /\ committed = <<>>
  /\ wpc = "wait"
  /\ fl = [c \in Callers |-> IdleFrame]
  /\ running = "none"
  /\ failures = 0
  /\ accepted = <<>>
  /\ lastUpd = [k \in Keys |-> None]
  /\ rd = IdleRead
  /\ ing = IdleIngest
  /\ \E segments \in SeqsUpTo(Segments, MaxSegments) :
       out = [op |-> "segments", segments |-> segments]
  /\ OutsideInit

\* the renderers, called on the list
NextRender ==
  \/ RenderAscii
  \/ RenderMermaid
  \/ RenderDotCall

SpecRender == InitRender /\ [][NextRender]_vars

\* the processes that hold the lock: acquire has opened the lock file and
\* release has not closed it (SingleInstance._fd is not None)
Holders == {i \in Instances : inst[i].fd}

\* C27: at most one client process holds the single-instance lock of a
\* lock path at any time, and the lock file is then the one that process
\* created; an acquire attempted while a lock file exists fails and leaves
\* the lock file and the other processes as they are.
C27_OneHolder ==
  /\ [](/\ Cardinality(Holders) <= 1
        /\ \A i \in Holders : lockFile.exists /\ lockFile.pid = i)
  /\ [][\A i \in Instances :
          (lockFile.exists /\ AcquireOpen(i))
          => /\ inst'[i] = Refused(inst[i])
             /\ lockFile' = lockFile
             /\ \A j \in Instances \ {i} : inst'[j] = inst[j]]_vars

\* a process was refused the lock that another process holds
C27_Witness ==
  \E i, j \in Instances :
    /\ i # j
    /\ Holders = {i}
    /\ lockFile.exists /\ lockFile.pid = i
    /\ inst[j].pc = "off" /\ inst[j].status = "lock exists"

\* C28: whenever a process that had acquired the single-instance lock is
\* over (normal exit, exception out of the with-block, SIGTERM or SIGINT),
\* its lock file is gone and the signal handlers are the ones that were
\* installed before acquire, so that a new process can acquire the lock.
C28_ReleasedWhenHolderEnds ==
  \A i \in Instances :
    (inst[i].pc = "off" /\ inst[i].held)
    => /\ ~(lockFile.exists /\ lockFile.pid = i)
       /\ inst[i].term = "dfl" /\ inst[i].int = "dfl"

\* C28, as far as the code goes: a process that ends while both handlers
\* of SingleInstance are installed (by a signal, or not at all before
\* release has restored them), and a process whose release runs to its
\* end, leave no lock file and the former handlers behind.
C28_ReleasedWhileHandlersInstalled ==
  [][\A i \in Instances :
       (/\ inst'[i].pc = "off" /\ inst[i].pc # "off" /\ inst[i].held
        /\ \/ inst[i].term = "ours" /\ inst[i].int = "ours"
           \/ inst[i].pc = "r_unlink" /\ lockFile' = NoFile)
       => /\ ~(lockFile'.exists /\ lockFile'.pid = i)
          /\ inst'[i].term = "dfl" /\ inst'[i].int = "dfl"]_vars

\* the process makes one more request of the call it is in
Again(i) ==
  /\ inst'[i].pc = inst[i].pc
  /\ inst'[i].attempt = inst[i].attempt + 1

\* C26: ensure_server_hello and upload_records make at most
\* max(1, http_retries) requests; one more request follows only a timeout,
\* a transport error or a response with status 408, 425, 429 or >= 500,
\* and not the last request allowed; any other failing status ends the call
\* with an error at once.
C26_BoundedRetries ==
  /\ [](\A i \in Instances :
          inst[i].pc \in {"hello", "upload"}
          => inst[i].attempt <= Max(1, inst[i].retries))
  /\ [][\A i \in Instances, resp \in Responses :
          Http(i, resp)
          => /\ Again(i)
                => /\ \/ resp.kind \in {"timeout", "transport"}
                      \/ resp.status \in {408, 425, 429}
                      \/ resp.status >= 500
                   /\ inst[i].attempt < Max(1, inst[i].retries)
             /\ ~Again(i) => inst'[i].pc # inst[i].pc
             /\ (/\ resp.kind = "response"
                 /\ resp.status >= 400 /\ resp.status < 500
                 /\ resp.status \notin {408, 425, 429})
                => ~Again(i) /\ out'.res = "raise"]_vars

\* an upload gave up after the last request allowed, which followed another
C26_Witness ==
  /\ out.op = "upload_records"
  /\ out.res = "raise"
  /\ out.attempt >= 2
  /\ out.attempt = Max(1, out.retries)
  /\ out.resp.kind = "response" /\ out.resp.status = 500

\* the instant a stored value stands for, 0 when it stands for none
At(v) == ParseLastScan(v).at

\* the server acknowledged the request
Acknowledged(resp) ==
  resp.kind = "response" /\ resp.status = 200 /\ resp.body_ok

\* the process takes the state from where it was loaded
TakesState(i) ==
  \/ inst[i].pc = "load" /\ inst'[i].pc = "hello"
  \/ inst[i].pc = "sigint" /\ inst'[i].pc = "poll"

\* the paths of the records from record k on
PathsFrom(f) == {f.records[j].file_path : j \in f.k..Len(f.records)}

\* C22: the value of a path in ClientState.files changes only when the
\* server has acknowledged the upload of the batch that holds the path's
\* record; an upload that failed changes no value, so the paths of its
\* batch and of the batches after it keep theirs.
C22_AdvanceOnlyAfterAck ==
  [][/\ \A p \in ScanPaths :
          files'[p] # files[p]
          => \/ \E i \in Instances : TakesState(i)
             \/ \E i \in Instances :
                  /\ inst[i].pc = "upload"
                  /\ p \in BatchPaths(inst[i])
                  /\ \E resp \in Responses : Acknowledged(resp) /\ Http(i, resp)
     /\ \A i \in Instances, resp \in Responses :
          (inst[i].pc = "upload" /\ ~Acknowledged(resp) /\ Http(i, resp))
          => files' = files /\ stateFile' = stateFile]_vars

\* the first batch of a run was acknowledged and its path advanced; the
\* second is not sent yet and its path has no value
C22_Witness ==
  \E i \in Instances :
    /\ inst[i].pc = "save"
    /\ inst[i].acked # {}
    /\ \A p \in inst[i].acked : ParseLastScan(files[p]).parsed
    /\ \E p \in PathsFrom(inst[i]) \ inst[i].acked : files[p] = ""

\* the paths the server acknowledged in the scan under way whose advance
\* the state document does not hold
Missing(i) ==
  {p \in inst[i].acked : ~stateFile.exists \/ stateFile.files[p] # files[p]}

\* C24: at every point of a run (where a crash may hit it), the paths whose
\* records the server acknowledged in that run and whose advance the state
\* document lacks all belong to the batch acknowledged last, at most
\* batch-size paths, and the file at state_path is a complete document.
C24_OneBatchAtRisk ==
  /\ stateFile.exists => stateFile.complete
  /\ \A i \in Instances :
       Missing(i) # {}
       => /\ inst[i].pc \in {"save", "save_write", "save_replace"}
          /\ Missing(i) \subseteq BatchPaths(inst[i])
          /\ Cardinality(Missing(i)) <= BatchSize(inst[i].batch)

\* the second batch of a run is acknowledged and not saved yet, the first
\* is in the state document
C24_Witness ==
  \E i \in Instances :
    /\ inst[i].pc = "save_replace"
    /\ tmpFile.exists /\ tmpFile.complete
    /\ Missing(i) # {}
    /\ inst[i].acked \ Missing(i) # {}

\* the paths of the files select_files_for_run returns for a state
Selected(fs) ==
  {SelectFilesForRun(disk, fs)[j].path : j \in 1..Len(SelectFilesForRun(disk, fs))}

\* C25: when an upload fails for good, the run command stops uploading and
\* exits with status 1, and the daemon ends the scan without recording its
\* key; the batches acknowledged before are in the state document, the
\* paths of the failed batch and of the batches after it keep their values
\* in the state and in the document, and the scheduler selects them for
\* that state.
C25_FailedUploadKeepsState ==
  [][\A i \in Instances, resp \in Responses :
       (inst[i].pc = "upload" /\ Http(i, resp) /\ out'.res = "raise")
       => /\ IF inst[i].cmd = "run"
             THEN inst'[i].pc = "release" /\ inst'[i].status = "1"
             ELSE inst'[i].pc = "poll" /\ inst'[i].last_run = inst[i].last_run
          /\ files' = files /\ stateFile' = stateFile
          /\ \A p \in inst[i].acked :
               stateFile.exists /\ stateFile.files[p] = files[p]
          /\ inst[i].cmd = "run" /\ stateFile.exists => stateFile.files = files
          /\ PathsFrom(inst[i]) \subseteq Selected(files')]_vars

\* a run command failed on its second batch: the first is in the state
\* document, the second has no value
C25_Witness ==
  \E i \in Instances :
    /\ inst[i].pc = "release" /\ inst[i].status = "1"
    /\ out.op = "upload_records" /\ out.res = "raise" /\ out.k = 2
    /\ stateFile.exists
    /\ \E p, q \in ScanPaths :
         /\ ParseLastScan(stateFile.files[p]).parsed
         /\ stateFile.files[q] = "" /\ files[q] = ""
         /\ q \in Selected(files)

\* the paths that iter_files enumerates
DiskPaths == {disk[j].path : j \in 1..Len(disk)}

\* C21: over the runs of the client, each of which processes a prefix of
\* its selection and advances the state of the paths it processed, no path
\* is processed a second time while an enumerated file was never
\* processed.
C21_NoReprocessWhileUnprocessed ==
  [][\A i \in Instances :
       (inst[i].pc = "upload" /\ inst'[i].pc = "save")
       => \A p \in BatchPaths(inst[i]) :
            p \in done => DiskPaths \subseteq done]_vars

\* C21, for the state the scheduler is given: a scan never selects a path
\* that has a last-scan time in that state while an enumerated file has
\* none there.
C21_NoReselectInOneState ==
  [][(scan.pc = "idle" /\ scan'.pc = "loop")
     => \A j \in 1..Len(scan'.sel) :
          ParseLastScan(files[scan'.sel[j].path]).parsed
          => \A q \in DiskPaths : ParseLastScan(files[q]).parsed]_vars

\* C23: for every path, the instant its stored value stands for never
\* decreases: not in the ClientState of a process while the process works
\* on it (state updates), and not in the state document from one save to
\* the next (runs, saves and reloads).
C23_NeverDecreases ==
  [][\A p \in ScanPaths :
       /\ (\A i \in Instances : ~TakesState(i))
          => At(files'[p]) >= At(files[p])
       /\ (stateFile.exists /\ stateFile'.exists)
          => At(stateFile'.files[p]) >= At(stateFile.files[p])]_vars

\* C23, for the run command, which loads the state inside the with-block:
\* from its load on, no value of its state and no value it saves stands
\* for an earlier instant than before.
C23_RunNeverDecreases ==
  [][\A i \in Instances, p \in ScanPaths :
       (inst[i].cmd = "run" /\ inst[i].pc \notin {"off", "enter"})
       => /\ At(files'[p]) >= At(files[p])
          /\ (stateFile.exists /\ stateFile'.exists)
             => At(stateFile'.files[p]) >= At(stateFile.files[p])]_vars

\* C29: a command that writes the state document reads it only while it
\* holds the single-instance lock, and no save takes away a last-scan time
\* that the state document held.
C29_ReadsUnderLock ==
  [][/\ \A i \in Instances :
          Load(i) => i \in Holders /\ lockFile.exists /\ lockFile.pid = i
     /\ \A p \in ScanPaths :
          (stateFile.exists /\ ParseLastScan(stateFile.files[p]).parsed)
          => stateFile'.exists /\ ParseLastScan(stateFile'.files[p]).parsed]_vars

\* C29, the second half alone: no save takes away a last-scan time that
\* the state document held.
C29_NoAdvanceLost ==
  [][\A p \in ScanPaths :
       (stateFile.exists /\ ParseLastScan(stateFile.files[p]).parsed)
       => stateFile'.exists /\ ParseLastScan(stateFile'.files[p]).parsed]_vars

\* C29, for the run command: it reads the state document while it holds
\* the lock.
C29_RunReadsUnderLock ==
  [][\A i \in Instances :
       (inst[i].cmd = "run" /\ Load(i))
       => i \in Holders /\ lockFile.exists /\ lockFile.pid = i]_vars

\* the identity of a row of file_record
Identity(r) ==
  [machine |-> r.machine_name, file_path |-> r.file_path,
   file_name |-> r.file_name]

\* the rows of the hash
RowsOf(sha256) == {i \in 1..Len(committed) : committed[i].sha256 = sha256}

\* the rows of the hash whose scan dates a segment stands for
SegmentRows(sha256, seg) ==
  {i \in RowsOf(sha256) :
     LET d == ScanDateFromUrnOrTs(committed[i].urn, committed[i].scan_ts)
     IN /\ committed[i].machine_name = seg.machine_name
        /\ BaseUrn(committed[i].urn) = seg.base_urn
        /\ DateOrdinal(seg.start_date) <= DateOrdinal(d)
        /\ DateOrdinal(d) <= DateOrdinal(seg.end_date)}

\* the rows (M1, /a/file.bin) of 2026-01-01 and 2026-01-02 and
\* (M1, /b/file.bin) of 2026-01-03, inserted as the repository's test
\* inserts them
ScenarioRows ==
  <<[machine_name |-> "M1", file_path |-> "/a/file.bin",
     file_name |-> "file.bin", sha256 |-> "h1", urn |-> <<"">>,
     scan_ts |-> "2026-01-01T00:00:00+00:00"],
    [machine_name |-> "M1", file_path |-> "/a/file.bin",
     file_name |-> "file.bin", sha256 |-> "h1", urn |-> <<"">>,
     scan_ts |-> "2026-01-02T00:00:00+00:00"],
    [machine_name |-> "M1", file_path |-> "/b/file.bin",
     file_name |-> "file.bin", sha256 |-> "h1", urn |-> <<"">>,
     scan_ts |-> "2026-01-03T00:00:00+00:00"]>>

\* C30: fetch_segments_for_sha256 groups the rows of a hash by identity
\* (machine, file_path, file_name): when the limit cuts no row off, rows
\* that differ in machine, path or name never share a segment, and the
\* rows (M1, /a/file.bin) of 2026-01-01 and 2026-01-02 and
\* (M1, /b/file.bin) of 2026-01-03 give exactly two segments,
\* 2026-01-01..2026-01-02 and 2026-01-03..2026-01-03.
C30_GroupedByIdentity ==
  (out.op = "fetch_segments_for_sha256" /\ out.limit = GraphLimit)
  => /\ \A k \in 1..Len(out.segments) :
          \A i, j \in SegmentRows(out.sha256, out.segments[k]) :
            Identity(committed[i]) = Identity(committed[j])
     /\ (committed = ScenarioRows /\ out.sha256 = "h1")
        => /\ Len(out.segments) = 2
           /\ out.segments[1].start_date = "2026-01-01"
           /\ out.segments[1].end_date = "2026-01-02"
           /\ out.segments[2].start_date = "2026-01-03"
           /\ out.segments[2].end_date = "2026-01-03"

\* C30, as the code groups: every segment is of one key (machine, base
\* urn), and spans dates of rows of that key.
C30_GroupedByBaseUrn ==
  (out.op = "fetch_segments_for_sha256" /\ out.limit = GraphLimit)
  => \A k \in 1..Len(out.segments) :
       LET key == [machine |-> out.segments[k].machine_name,
                   base |-> out.segments[k].base_urn]
           dates == GroupDates(committed, RowsOf(out.sha256), key)
       IN /\ out.segments[k].start_date \in dates
          /\ out.segments[k].end_date \in dates
          /\ DateOrdinal(out.segments[k].start_date)
               <= DateOrdinal(out.segments[k].end_date)

\* the scan dates of the rows of the hash that have the identity
DatesOf(sha256, id) ==
  {ScanDateFromUrnOrTs(committed[i].urn, committed[i].scan_ts) :
     i \in {j \in RowsOf(sha256) : Identity(committed[j]) = id}}

\* the date lies in the span of the segment
Covers(seg, d) ==
  /\ DateOrdinal(seg.start_date) <= DateOrdinal(d)
  /\ DateOrdinal(d) <= DateOrdinal(seg.end_date)

\* the segments split the dates at the gaps of more than gap_days, and
\* nowhere else
SplitAtGaps(dates, segs, gap_days) ==
  /\ \A s \in segs : DateOrdinal(s.start_date) <= DateOrdinal(s.end_date)
  /\ \A d \in dates : Cardinality({s \in segs : Covers(s, d)}) = 1
  /\ \A d, e \in dates :
       (/\ DateOrdinal(d) < DateOrdinal(e)
        /\ ~\E x \in dates : /\ DateOrdinal(d) < DateOrdinal(x)
                              /\ DateOrdinal(x) < DateOrdinal(e))
       => ((\E s \in segs : Covers(s, d) /\ Covers(s, e))
           <=> DateOrdinal(e) - DateOrdinal(d) <= gap_days)
  /\ \A s, t \in segs :
       s # t => \/ DateOrdinal(t.start_date) - DateOrdinal(s.end_date) > gap_days
                \/ DateOrdinal(s.start_date) - DateOrdinal(t.end_date) > gap_days

\* the segments returned, as a set
OutSegments == {out.segments[k] : k \in 1..Len(out.segments)}

\* C35: for every identity (machine, file_path, file_name) with rows of
\* the hash, the segments that stand for its rows split its sorted
\* distinct scan dates exactly where two consecutive dates are more than
\* gap_days apart: consecutive dates inside a segment are at most gap_days
\* apart, successive segments are more than gap_days apart, the segments
\* are pairwise disjoint, have start_date <= end_date, and every scan date
\* of the identity lies in exactly one of them.
C35_SplitAtGapsPerIdentity ==
  (out.op = "fetch_segments_for_sha256" /\ out.limit = GraphLimit)
  => \A i \in RowsOf(out.sha256) :
       SplitAtGaps(DatesOf(out.sha256, Identity(committed[i])),
                   {s \in OutSegments :
                      \E j \in SegmentRows(out.sha256, s) :
                        Identity(committed[j]) = Identity(committed[i])},
                   GapDays)

\* C35, for the keys the code groups by: the segments of one key
\* (machine, base urn) split the scan dates of the rows of that key that
\* the query returned exactly at the gaps of more than gap_days.
C35_SplitAtGapsPerKey ==
  out.op = "fetch_segments_for_sha256"
  => LET ids == FetchRows(committed, out.sha256, out.limit)
     IN \A key \in GroupKeys(committed, ids) :
          SplitAtGaps(GroupDates(committed, ids, key),
                      {s \in OutSegments : /\ s.machine_name = key.machine
                                           /\ s.base_urn = key.base},
                      GapDays)

\* the entries of an ASCII chain: the parts of its lines, each with the
\* machine of its line
AsciiEntries(text) ==
  Concat([n \in 1..Len(text) |->
            [k \in 1..Len(text[n].parts) |->
               [machine |-> text[n].machine, disp |-> text[n].parts[k].disp,
                start_date |-> text[n].parts[k].start_date,
                end_date |-> text[n].parts[k].end_date]]])

\* the entries of a flowchart or digraph: its node lines, each with the
\* machine of the subgraph it stands in
NodeEntries(text) ==
  LET nodes == SelectSeq([n \in 1..Len(text) |-> [at |-> n, l |-> text[n]]],
                         LAMBDA x : x.l.line = "node")
      opened(n) == CHOOSE q \in 1..n :
                     /\ text[q].line = "subgraph"
                     /\ \A r \in (q + 1)..n : text[r].line # "subgraph"
  IN [k \in 1..Len(nodes) |->
        [machine |-> text[opened(nodes[k].at)].machine, disp |-> nodes[k].l.disp,
         start_date |-> nodes[k].l.start_date,
         end_date |-> nodes[k].l.end_date]]

\* the segment comes no later than the other in the order (machine, start
\* date, base urn, segment index)
NotAfter(s, t) == ~SegmentBefore(t, s)

\* the positions of the list in the order of the renderers: ascending by
\* (machine, start date, base urn, segment index), segments of the same
\* key in the order of the list
InOrder(segments) ==
  CHOOSE f \in [1..Len(segments) -> 1..Len(segments)] :
    /\ \A a, b \in 1..Len(segments) : a # b => f[a] # f[b]
    /\ \A a, b \in 1..Len(segments) :
         a < b => /\ NotAfter(segments[f[a]], segments[f[b]])
                  /\ NotAfter(segments[f[b]], segments[f[a]]) => f[a] < f[b]

\* what a rendering shows of a segment
Shown(s) ==
  [machine |-> s.machine_name, disp |-> Disp(s.machine_name, s.base_urn),
   start_date |-> s.start_date, end_date |-> s.end_date]

\* C31: each of render_ascii_chain, render_mermaid_flowchart and
\* render_dot emits one entry per segment of the list it is given, the
\* entries of a machine together, machines ascending, and within a machine
\* in the order (start date, base urn, segment index); the three outputs
\* for one list hold the same entries in the same order.
C31_SameEntriesSameOrder ==
  out.op \in {"render_ascii_chain", "render_mermaid_flowchart", "render_dot"}
  => LET f == InOrder(out.segments)
         want == [k \in 1..Len(out.segments) |-> Shown(out.segments[f[k]])]
     IN /\ (IF out.op = "render_ascii_chain" THEN AsciiEntries(out.text)
            ELSE NodeEntries(out.text)) = want
        /\ AsciiEntries(RenderAsciiChain(out.segments))
             = NodeEntries(RenderMermaidFlowchart(out.segments))
        /\ NodeEntries(RenderMermaidFlowchart(out.segments))
             = NodeEntries(RenderDot(out.segments))
        /\ out.op = "render_ascii_chain"
           => \A n \in 1..Len(out.text) : \A k \in 1..Len(out.text[n].parts) :
                \E j \in 1..Len(out.segments) :
                  /\ Shown(out.segments[j])
                       = [machine |-> out.text[n].machine,
                          disp |-> out.text[n].parts[k].disp,
                          start_date |-> out.text[n].parts[k].start_date,
                          end_date |-> out.text[n].parts[k].end_date]
                  /\ out.text[n].parts[k].seg_marker
                       = IF out.segments[j].segment_index > 0
                         THEN out.segments[j].segment_index + 1 ELSE 0

\* a digraph of three segments of two machines, given in another order
\* than the one they are shown in
C31_Witness ==
  /\ out.op = "render_dot"
  /\ Len(out.segments) = 3
  /\ out.segments[1].machine_name = "M2"
  /\ out.segments[2].machine_name = "M1" /\ out.segments[3].machine_name = "M1"
  /\ SegmentBefore(out.segments[3], out.segments[2])
  /\ Len(NodeEntries(out.text)) = 3
  /\ NodeEntries(out.text)[1] = Shown(out.segments[3])
  /\ NodeEntries(out.text)[3] = Shown(out.segments[1])

\* stop() has set the stop request and the task it awaits is over
StopOver == stopReq /\ wpc \in {"done", "dead"}

\* C32: when stop() is over after a shutdown during which storage was
\* healthy and nothing was enqueued, every row that enqueue admitted is
\* committed, and the worker ended by leaving its loop.
C32_CommittedAtStop ==
  StopOver => /\ wpc = "done"
              /\ \A i \in AcceptedIds : i \in Ids(committed)

\* C32, the part that holds: when the worker has left its loop after such
\* a shutdown, every admitted row that no flush dropped before the stop
\* request is committed.
C32_CommittedUnlessDropped ==
  (stopReq /\ wpc = "done")
  => \A i \in AcceptedIds : i \in Ids(committed) \/ Places(i) = 0

\* C32, termination: once stop is requested, the worker is over in the
\* end, whether the storage steps succeed or fail.
C32_WorkerExits == stopReq ~> (wpc \in {"done", "dead"})

\* C33: while the storage step of a flush is under way (its rows are
\* popped, its commit has not ended), the buffer lock is free and another
\* task can run: a prime, and with it a cache lookup or an enqueue, can be
\* carried out.
C33_NotBlockedByCommit ==
  \A c \in Callers :
    fl[c].pc = "storage"
    => /\ running = "none"
       /\ \E m \in Machines, d \in Dicts : ENABLED ApiPrime(m, d)

\* C34: when the storage step of a flush of the worker's loop fails,
\* whatever it raises, the worker goes to its pause with the rows of the
\* flush back at the head of the queue, and nothing is reported to a
\* client; after the pause it flushes again.
C34_WorkerSurvivesFailure ==
  /\ [][(/\ wpc = "drain"
          /\ fl["worker"].pc \in {"storage", "putback"}
          /\ fl'["worker"].pc = "idle"
          /\ (failures' > failures \/ fl["worker"].pc = "putback"))
         => (/\ wpc' = "sleep"
             /\ pending' = fl["worker"].batch \o pending
             /\ out' = NoOut)]_vars
  /\ [](wpc # "dead")

\* C34, the part that holds: after a sqlite3.Error in its loop the worker
\* pauses with the rows back at the head of the queue and reports nothing;
\* from the pause it goes on to wait or, when stop was requested, to the
\* last flush.
C34_SqliteErrorPauses ==
  /\ [][(/\ wpc = "drain"
          /\ fl["worker"].pc = "putback"
          /\ fl'["worker"].pc = "idle")
         => (/\ wpc' = "sleep"
             /\ pending' = fl["worker"].batch \o pending
             /\ out' = NoOut)]_vars
  /\ [][wpc = "sleep" => wpc' \in {"sleep", "wait", "final"}]_vars

\* the request is answered 200 in this step
Answers200(r) ==
  ing[r].pc = "enqueue" /\ ing'[r].pc = "idle" /\ ing'[r].status = 200

\* the changed entries a request gets when it is handled alone, after the
\* rows admitted so far
SerialChanged(recs, rows) ==
  Changed(recs, LatestShaByPath(rows, RequireMachineName("t1"),
                                {recs[i].path : i \in 1..Len(recs)}))

\* C38: the response of every ingest request is the one it gets in the
\* serial order in which the requests enqueue: its changed entries compare
\* each record with the latest row admitted before its own enqueue, so a
\* request that enqueues second reports the hash the first enqueued as
\* previous_sha256, and not the hash before both.
C38_SerialResponses ==
  [][\A r \in Requests :
       Answers200(r) => ing'[r].changed = SerialChanged(ing[r].recs, accepted)]_vars

\* two requests for one path were received before either was handled; the
\* path had the hash of the second in storage, the first enqueued another
\* hash, and the second reports the hash of the first as previous_sha256
C38_Witness ==
  \E r, q \in Requests :
    /\ r # q
    /\ ing[r].status = 200 /\ ing[q].status = 200
    /\ ing[r].pc = "idle" /\ ing[q].pc = "idle"
    /\ ing[r].beside
    /\ ing[r].recs[1].path = ing[q].recs[1].path
    /\ ing[r].recs[1].sha # ing[q].recs[1].sha
    /\ Len(accepted) = 3
    /\ accepted[1].path = ing[r].recs[1].path
    /\ accepted[1].sha = ing[q].recs[1].sha
    /\ accepted[2].sha = ing[r].recs[1].sha
    /\ accepted[3].sha = ing[q].recs[1].sha
    /\ Len(ing[q].changed) = 1
    /\ ing[q].changed[1].previous_sha256 = ing[r].recs[1].sha

\* C39: the duplicates of a 200 response are those counted over the
\* records of the request and every row admitted by an earlier ingest
\* call, whether that row is committed or still pending.
C39_PendingRowsCounted ==
  [][IngestAnswers200
     => out'.duplicates = Duplicates(ing.recs, accepted)]_vars

\* C39, the part that holds: when every row admitted before is committed
C39_CommittedRowsCounted ==
  [][(IngestAnswers200 /\ \A i \in AcceptedIds : i \in Ids(committed))
     => out'.duplicates = Duplicates(ing.recs, accepted)]_vars

\* the enumerated file at path p cannot be hashed
Unreadable(p) == \E j \in 1..Len(disk) : disk[j].path = p /\ ~disk[j].hashable

\* scan_files is at a file that cannot be hashed and takes its step
AtUnreadable ==
  /\ scan.pc = "loop"
  /\ scan.i <= Len(scan.sel)
  /\ ~QuotaReached(scan)
  /\ ~scan.sel[scan.i].hashable
  /\ scan' # scan

Hashed(p) ==
  /\ scan.pc = "loop"
  /\ \E k \in 1..Len(scan.records) : scan.records[k].file_path = p

\* C37: under runs that are repeated and whose uploads succeed, every
\* enumerated file that can be hashed is hashed again and again.
C37_NoStarvation ==
  \A p \in ScanPaths :
    (Pos(disk, p) > 0 /\ ~Unreadable(p)) => []<>Hashed(p)

\* C37, the part that holds: when every enumerated file can be hashed
C37_NoStarvationAllHashable ==
  \A p \in ScanPaths :
    (Pos(disk, p) > 0 /\ \A q \in ScanPaths : ~Unreadable(q)) => []<>Hashed(p)

\* the daemon ends a scheduled scan with schedule_done (cli.py lines 226-244)
ScanDone(i) ==
  /\ inst[i].cmd = "daemon"
  /\ inst[i].pc = "save_replace" /\ inst[i].after = "mark"
  /\ inst'[i].pc = "poll"

\* the daemon ends a scheduled scan with schedule_error (cli.py lines 245-246)
ScanError(i) ==
  /\ inst[i].cmd = "daemon"
  /\ inst[i].pc \in {"hello", "upload", "save"}
  /\ inst'[i].pc = "poll"

\* schedule_error for an exception raised before the key is recorded
\* (cli.py lines 181-223)
ScanErrorEarly(i) ==
  /\ ScanError(i)
  /\ inst[i].pc = "save" => inst[i].after = "batch"

\* a poll on which the key matches would start the scan
WouldStart(i) == inst[i].last_run # DateIso(today)

\* a scan that is done is recorded, in the state object and in the state
\* file, for the day it was started on, and no poll of a day that is
\* recorded starts the scan
DoneIsRecorded ==
  \A i \in Instances :
    /\ ScanDone(i) => /\ inst'[i].last_run = DateIso(inst[i].day)
                      /\ stateFile'.last_run = DateIso(inst[i].day)
    /\ (inst[i].cmd = "daemon" /\ inst[i].pc = "poll" /\ ~WouldStart(i))
       => inst'[i].pc # "hello"

\* C40: a scheduled scan that is done is recorded for its key and day and
\* not started again on a poll of that day; a scheduled scan that ended with
\* an error leaves the record of the key as it was, so that the next poll on
\* which the key matches starts the scan again.
C40_RecordedWhenDoneOnly ==
  [][/\ DoneIsRecorded
     /\ \A i \in Instances :
          ScanError(i) => /\ inst'[i].last_run = inst[i].last_run
                          /\ WouldStart(i)']_vars

\* C40, the part that holds: errors raised before the key is recorded
C40_EarlyErrorNotRecorded ==
  [][/\ DoneIsRecorded
     /\ \A i \in Instances :
          ScanErrorEarly(i) => /\ inst'[i].last_run = inst[i].last_run
                               /\ WouldStart(i)']_vars

====
